---- MODULE Spec2Model ----
(***************************************************************************)
(* Instance reconciliation engine of n8n-manager-backend: the cron tick of *)
(* InitCronJobs, syncInstance, syncWorkflows and syncWebhooks over the     *)
(* three PocketBase collections "instances", "workflows" and "webhooks".   *)
(***************************************************************************)
EXTENDS Integers, Sequences, FiniteSets, TLC

(***************************************************************************)
(* Bounds of the model.                                                    *)
(***************************************************************************)
\* number of cron ticks explored
MaxTicks == 7
\* number of failing store / remote calls injected in one behaviour
MaxFaults == 2
\* number of edits made on the remote instances
MaxEdits == 1
\* number of records of the "workflows" collection after which no tick starts
MaxSnapshots == 3
\* largest configured check_interval_mins
MaxInterval == 2
\* number of callbacks that may be running at once
MaxJobs == 2
\* number of cron ticks explored with callbacks that may overlap
MaxCronTicks == 3
MaxListing == 2
MaxName == 2
MaxNotes == 4
MaxCredentials == 3
MaxCalls == 2
MaxPart == 4
MaxShortPart == 2
MaxRoutes == 2
\* clock units per minute
Minute == 2
\* timestamp units per second (remote timestamps carry sub-second digits)
SubSec == 2

(***************************************************************************)
(* Program constants.                                                      *)
(***************************************************************************)
DefaultInterval == 5
MaxScanTokenSize == 65536
WebhookType == "n8n-nodes-base.webhook"
RedisType == "n8n-nodes-base.redisTrigger"
ScheduleType == "n8n-nodes-base.scheduleTrigger"
ErrGetWorkflows == "failed to get workflows: error making request"
ErrUpdateInstance == "failed to update instance record: save failed"

\* The zero types.DateTime of a record whose last_check was never set: far
\* enough in the past for every interval of the model to have expired.
ZeroTime == 0 - (MaxInterval + DefaultInterval + 1) * Minute

Max(a, b) == IF a >= b THEN a ELSE b

(***************************************************************************)
(* Remote data: nodes and workflows as decoded from the n8n API.           *)
(***************************************************************************)
NodeA1 == [ID |-> "nA", Type |-> WebhookType, Path |-> "p1"]
NodeA2 == [ID |-> "nA", Type |-> WebhookType, Path |-> "p2"]
NodeB1 == [ID |-> "nB", Type |-> WebhookType, Path |-> "p1"]
NodeS == [ID |-> "nS", Type |-> ScheduleType, Path |-> ""]

\* node graphs a remote workflow may have
NodeLists == { <<>>, <<NodeA1>>, <<NodeA2, NodeS>>, <<NodeA1, NodeB1>> }

\* remote timestamps, in units of 1/SubSec second
Stamps == 0 .. (2 * SubSec - 1)

InstanceIds == {"i1", "i2"}
InstanceOrder == <<"i1", "i2">>
Host(i) == IF i = "i1" THEN "https://one" ELSE "https://two"

\* time.Time.Format(time.RFC3339): the rendering keeps whole seconds only
Format(t) == t \div SubSec

VARIABLES
  now,          \* wall clock, in units of 1/Minute minute
  tick,         \* number of cron ticks fired so far
  instances,    \* collection "instances": id -> record
  workflows,    \* collection "workflows": records in order of creation
  webhooks,     \* collection "webhooks": records in order of creation
  remote,       \* per instance, the workflows its API lists
  pc,           \* position of the cron callback
  list,         \* InitCronJobs: ids of the listed instance records
  idx,          \* InitCronJobs: loop index into list
  record,       \* InitCronJobs: the in-memory record of the current instance
  err,          \* InitCronJobs: error returned by syncInstance
  fetched,      \* syncInstance: workflows returned by GetWorkflows
  stats,        \* syncInstance: InstanceStats of fetched
  wfIdx,        \* syncWorkflows: loop index into fetched
  needsUpdate,  \* syncWorkflows: decision of the change detector
  existing,     \* syncWorkflows: index of existingRecords[0], 0 when none
  toDelete,     \* syncWebhooks: records still to delete
  toInsert,     \* syncWebhooks: extracted webhooks
  insIdx,       \* syncWebhooks: loop index into toInsert
  faults,       \* history: failing calls injected so far
  edits,        \* history: remote edits so far
  reads,        \* history: remote calls made in the current tick
  log,          \* history: writes and errors of the pass in progress
  hist,         \* history: per instance, the logs of its last two passes
  replace,      \* history: per (instance, workflow id), state of the last webhook replace
  lastStart,    \* history: per instance, tick of its last pass start
  gap,          \* history: per instance, ticks between its last two pass starts
  outcome,      \* history: per instance, what the current tick did with it
  jobs,         \* callbacks the cron has started that have not returned
  arg,          \* the argument of the function that is called on its own
  res           \* the result of that call

vars == <<now, tick, instances, workflows, webhooks, remote, pc, list, idx,
          record, err, fetched, stats, wfIdx, needsUpdate, existing, toDelete,
          toInsert, insIdx, faults, edits, reads, log, hist, replace,
          lastStart, gap, outcome, jobs, arg, res>>

store == <<instances, workflows, webhooks>>
locals == <<list, idx, record, err, fetched, stats, wfIdx, needsUpdate,
            existing, toDelete, toInsert, insIdx>>

(***************************************************************************)
(* Pure helpers of the n8n package.                                        *)
(***************************************************************************)
RECURSIVE CountNodes(_, _)
\* number of nodes of type t in a node list, counted as the loop of
\* GetInstanceStats counts them
CountNodes(nodes, t) ==
  IF nodes = <<>> THEN 0
  ELSE (IF Head(nodes).Type = t THEN 1 ELSE 0) + CountNodes(Tail(nodes), t)

RECURSIVE GetInstanceStats(_)
\* statistics that count the webhooks of inactive workflows as active
GetInstanceStatsAllActive(ws) ==
  IF ws = <<>>
  THEN [TotalWorkflows |-> 0, ActiveWorkflows |-> 0, InactiveWorkflows |-> 0,
        TotalWebhooks |-> 0, ActiveWebhooks |-> 0, InactiveWebhooks |-> 0,
        RedisTriggers |-> 0, ScheduledTriggers |-> 0]
  ELSE LET w == Head(ws)
           r == GetInstanceStats(Tail(ws))
           h == CountNodes(w.Nodes, WebhookType)
       IN [TotalWorkflows |-> r.TotalWorkflows + 1,
           ActiveWorkflows |-> r.ActiveWorkflows + (IF w.Active THEN 1 ELSE 0),
           InactiveWorkflows |-> r.InactiveWorkflows + (IF w.Active THEN 0 ELSE 1),
           TotalWebhooks |-> r.TotalWebhooks + h,
           ActiveWebhooks |-> r.ActiveWebhooks + h,
           InactiveWebhooks |-> r.InactiveWebhooks,
           RedisTriggers |-> r.RedisTriggers + CountNodes(w.Nodes, RedisType),
           ScheduledTriggers |-> r.ScheduledTriggers + CountNodes(w.Nodes, ScheduleType)]

GetInstanceStats(ws) ==
  IF ws = <<>>
  THEN [TotalWorkflows |-> 0, ActiveWorkflows |-> 0, InactiveWorkflows |-> 0,
        TotalWebhooks |-> 0, ActiveWebhooks |-> 0, InactiveWebhooks |-> 0,
        RedisTriggers |-> 0, ScheduledTriggers |-> 0]
  ELSE LET w == Head(ws)
           r == GetInstanceStats(Tail(ws))
           h == CountNodes(w.Nodes, WebhookType)
       IN [TotalWorkflows |-> r.TotalWorkflows + 1,
           ActiveWorkflows |-> r.ActiveWorkflows + (IF w.Active THEN 1 ELSE 0),
           InactiveWorkflows |-> r.InactiveWorkflows + (IF w.Active THEN 0 ELSE 1),
           TotalWebhooks |-> r.TotalWebhooks + h,
           ActiveWebhooks |-> r.ActiveWebhooks + (IF w.Active THEN h ELSE 0),
           InactiveWebhooks |-> r.InactiveWebhooks + (IF w.Active THEN 0 ELSE h),
           RedisTriggers |-> r.RedisTriggers + CountNodes(w.Nodes, RedisType),
           ScheduledTriggers |-> r.ScheduledTriggers + CountNodes(w.Nodes, ScheduleType)]

\* a due test that lets the instance through as soon as the interval is over
shouldCheckInstanceInclusive(lastCheck, checkInterval, t) ==
  LET interval == IF checkInterval = 0 THEN DefaultInterval ELSE checkInterval
  IN t >= lastCheck + interval * Minute

\* shouldCheckInstance, with time.Now() passed in as t
shouldCheckInstance(lastCheck, checkInterval, t) ==
  LET interval == IF checkInterval = 0 THEN DefaultInterval ELSE checkInterval
      nextCheckTime == lastCheck + interval * Minute
  IN t > nextCheckTime

\* a stamping that leaves the instance id empty
GetWorkflowsUnstamped(i) ==
  [k \in DOMAIN remote[i] |->
     [WorkflowID |-> remote[i][k].WorkflowID,
      Active |-> remote[i][k].Active,
      CreatedAt |-> remote[i][k].CreatedAt,
      UpdatedAt |-> remote[i][k].UpdatedAt,
      Nodes |-> remote[i][k].Nodes,
      InstanceID |-> ""]]

\* GetWorkflows on success: the decoded listing, each workflow stamped with
\* the instance id
GetWorkflows(i) ==
  [k \in DOMAIN remote[i] |->
     [WorkflowID |-> remote[i][k].WorkflowID,
      Active |-> remote[i][k].Active,
      CreatedAt |-> remote[i][k].CreatedAt,
      UpdatedAt |-> remote[i][k].UpdatedAt,
      Nodes |-> remote[i][k].Nodes,
      InstanceID |-> i]]

\* indices of the "workflows" records of one (instance, workflow id)
Matching(i, w) ==
  {k \in DOMAIN workflows :
     workflows[k].instance = i /\ workflows[k].workflow_id = w}

\* FindRecordsByFilter(..., "-created_at", 1, 0, ...): the indices the query
\* may return first.  The sort key is the text field created_at; records that
\* tie on it come in an order the store does not fix.
FindRecordsByFilter(i, w) ==
  {k \in Matching(i, w) :
     \A j \in Matching(i, w) : workflows[j].created_at <= workflows[k].created_at}

\* the comparison at workflow.go:63-65, true when the workflow is unchanged
Unchanged(rec, workflow) ==
  /\ rec.created_at = Format(workflow.CreatedAt)
  /\ rec.updated_at = Format(workflow.UpdatedAt)
  /\ rec.active = workflow.Active

createWorkflowRecord(i, workflow) ==
  [instance |-> i,
   workflow_id |-> workflow.WorkflowID,
   created_at |-> Format(workflow.CreatedAt),
   updated_at |-> Format(workflow.UpdatedAt),
   number_of_nodes |-> Len(workflow.Nodes),
   workflow_data |-> workflow,
   active |-> workflow.Active]

\* the schema's Required fields of a "workflows" record: number_of_nodes is a
\* required NumberField, which rejects the zero value
ValidWorkflowRecord(rec) == rec.number_of_nodes # 0

\* an extractor that stops after the first webhook-trigger node
extractFirstWebhook(workflow) ==
  LET hooks == SelectSeq(workflow.Nodes, LAMBDA n : n.Type = WebhookType)
  IN [k \in DOMAIN hooks \cap {1} |->
        [NodeID |-> hooks[k].ID, Path |-> hooks[k].Path,
         InstanceID |-> workflow.InstanceID,
         URL |-> <<workflow.InstanceID, "/webhook/", hooks[k].Path>>]]

\* extractWebhooksFromWorkflow: one Webhook per webhook-trigger node, in
\* node order
extractWebhooksFromWorkflow(workflow) ==
  LET hooks == SelectSeq(workflow.Nodes, LAMBDA n : n.Type = WebhookType)
  IN [k \in DOMAIN hooks |->
        [NodeID |-> hooks[k].ID, Path |-> hooks[k].Path,
         InstanceID |-> workflow.InstanceID,
         URL |-> <<workflow.InstanceID, "/webhook/", hooks[k].Path>>]]

\* the record syncWebhooks builds for one extracted webhook
WebhookRecord(i, workflow, webhook) ==
  [node_id |-> webhook.NodeID,
   instance |-> i,
   workflow_id |-> workflow.WorkflowID,
   webhook_url |-> <<Host(i), "/webhook/", webhook.Path>>]

\* a listing that returns the first record of the pair only
FindFirstWebhook(i, w) ==
  LET all == SelectSeq(webhooks, LAMBDA r : r.instance = i /\ r.workflow_id = w)
  IN IF all = <<>> THEN <<>> ELSE <<all[1]>>

\* a query that filters on the workflow id alone
FindWorkflowWebhooks(i, w) ==
  SelectSeq(webhooks, LAMBDA r : r.workflow_id = w)

\* a query that filters on the instance alone
FindInstanceWebhooks(i, w) ==
  SelectSeq(webhooks, LAMBDA r : r.instance = i)

\* part_004:25-29, app.FindAllRecords on "webhooks": the records of one
\* (instance, workflow id), in store order
FindAllWebhooks(i, w) ==
  SelectSeq(webhooks, LAMBDA r : r.instance = i /\ r.workflow_id = w)

\* a delete that leaves the collection as it was
RemoveNothing(s, r) == s

RECURSIVE RemoveFirst(_, _)
\* app.Delete(record): the collection without that record
RemoveFirst(s, r) ==
  IF s = <<>> THEN <<>>
  ELSE IF Head(s) = r THEN Tail(s)
  ELSE <<Head(s)>> \o RemoveFirst(Tail(s), r)

\* a store or remote call may fail while faults are left to inject
Fails == IF faults < MaxFaults THEN {TRUE, FALSE} ELSE {FALSE}
Fault(f) == faults' = faults + (IF f THEN 1 ELSE 0)

\* the instance record the migration creates (no last_check, no availability)
Bootstrap(interval) ==
  [check_interval_mins |-> interval,
   last_check |-> ZeroTime,
   availability_status |-> FALSE,
   availability_note |-> "",
   workflows_active |-> 0, workflows_inactive |-> 0,
   webhooks_active |-> 0, webhooks_inactive |-> 0]

\* a success record whose active webhooks are all the webhooks
SuccessRecordTotals(rec, st, t) ==
  [rec EXCEPT !.workflows_active = st.ActiveWorkflows,
              !.workflows_inactive = st.InactiveWorkflows,
              !.webhooks_active = st.TotalWebhooks,
              !.webhooks_inactive = st.InactiveWebhooks,
              !.last_check = t,
              !.availability_status = TRUE,
              !.availability_note = ""]

\* models.go:237-243: the record of an instance after a successful pass at t
SuccessRecord(rec, st, t) ==
  [rec EXCEPT !.workflows_active = st.ActiveWorkflows,
              !.workflows_inactive = st.InactiveWorkflows,
              !.webhooks_active = st.ActiveWebhooks,
              !.webhooks_inactive = st.InactiveWebhooks,
              !.last_check = t,
              !.availability_status = TRUE,
              !.availability_note = ""]

\* a failure record that keeps the note it had
FailureRecordKeepsNote(rec, e, t) ==
  [rec EXCEPT !.last_check = t, !.availability_status = FALSE]

\* a failure record that keeps the availability it had
FailureRecordStaysAvailable(rec, e, t) ==
  [rec EXCEPT !.last_check = t, !.availability_note = e]

\* a failure record that keeps the last_check it had
FailureRecordNoStamp(rec, e, t) ==
  [rec EXCEPT !.availability_status = FALSE, !.availability_note = e]

\* models.go:204-206: the record of an instance after syncInstance returned
\* the error e at t
FailureRecord(rec, e, t) ==
  [rec EXCEPT !.last_check = t,
              !.availability_status = FALSE,
              !.availability_note = e]

\* a workflow as the remote API reports it
RemoteWorkflow(w, nodes) ==
  [WorkflowID |-> w, Active |-> TRUE, CreatedAt |-> SubSec,
   UpdatedAt |-> SubSec, Nodes |-> nodes]

cur == list[idx]
workflow == fetched[wfIdx]
EmptyLog ==
  [snaps |-> 0, ins |-> 0, dels |-> 0, clean |-> TRUE, listing |-> <<>>,
   unsaved |-> {}]
NoOutcome == [kind |-> "none", saved |-> FALSE]

WorkflowIds == {"w1", "w2"}
Pairs == InstanceIds \X WorkflowIds

\* values of the callback's locals while no tick runs
NoRecord == Bootstrap(0)
NoStats == GetInstanceStats(<<>>)

LocalsInit ==
  /\ list = <<>> /\ idx = 1 /\ record = NoRecord /\ err = ""
  /\ fetched = <<>> /\ stats = NoStats /\ wfIdx = 1
  /\ needsUpdate = FALSE /\ existing = 0
  /\ toDelete = <<>> /\ toInsert = <<>> /\ insIdx = 1

HistoryInit ==
  /\ faults = 0 /\ edits = 0 /\ reads = 0 /\ log = EmptyLog
  /\ hist = [i \in InstanceIds |-> <<>>]
  /\ replace = [p \in Pairs |-> "none"]
  /\ lastStart = [i \in InstanceIds |-> 0]
  /\ gap = [i \in InstanceIds |-> 0]
  /\ outcome = [i \in InstanceIds |-> NoOutcome]
  /\ jobs = <<>>

\* one instance (the migration's sample, checked every minute) whose single
\* workflow has any of the node graphs
InitSync ==
  /\ instances = [i \in {"i1"} |-> Bootstrap(1)]
  /\ \E nodes \in NodeLists :
       remote = [i \in {"i1"} |-> <<RemoteWorkflow("w1", nodes)>>]

\* two instances: one with any configured interval, then the migration's
\* sample, checked every minute
InitSched ==
  /\ \E interval \in 0 .. MaxInterval :
       instances = [i \in InstanceIds |->
                      Bootstrap(IF i = "i1" THEN interval ELSE 1)]
  /\ remote = [i \in InstanceIds |-> <<RemoteWorkflow("w1", <<NodeA1>>)>>]

\* one instance whose API lists two workflows, the second active or not
InitMulti ==
  /\ instances = [i \in {"i1"} |-> Bootstrap(MaxInterval)]
  /\ \E nodes \in NodeLists : \E a \in BOOLEAN :
       remote = [i \in {"i1"} |->
                   <<RemoteWorkflow("w1", <<NodeA1>>),
                     [RemoteWorkflow("w2", nodes) EXCEPT !.Active = a]>>]

\* the process after its start: empty collections, no callback running
InitState ==
  /\ now = 0 /\ tick = 0 /\ pc = "idle"
  /\ workflows = <<>> /\ webhooks = <<>>
  /\ LocalsInit
  /\ HistoryInit

\* no call of a function on its own
NoCall == <<>>

InitCommon ==
  /\ InitState
  /\ arg = NoCall /\ res = NoCall

\* a tick that goes on to the loop when the listing fails
TickGoesOn ==
  /\ pc = "idle"
  /\ tick < MaxTicks
  /\ \A p \in Pairs : Cardinality(Matching(p[1], p[2])) < MaxSnapshots
  /\ tick' = tick + 1
  /\ now' = (tick + 1) * Minute
  /\ reads' = 0
  /\ outcome' = [i \in InstanceIds |-> NoOutcome]
  /\ \E f \in Fails :
       /\ Fault(f)
       /\ IF f
          THEN pc' = "loop" /\ UNCHANGED list
          ELSE /\ pc' = "loop"
               /\ list' = SelectSeq(InstanceOrder, LAMBDA i : i \in DOMAIN instances)
  /\ idx' = 1
  /\ UNCHANGED <<arg, res, jobs,
                   store, remote, record, err, fetched, stats, wfIdx, needsUpdate,
                 existing, toDelete, toInsert, insIdx, edits, log, hist,
                 replace, lastStart, gap>>

(***************************************************************************)
(* The cron callback of InitCronJobs.                                      *)
(***************************************************************************)
\* the cron fires on the minute; app.FindAllRecords("instances") lists the
\* instances or fails, which ends the tick
Tick ==
  /\ pc = "idle"
  /\ tick < MaxTicks
  /\ \A p \in Pairs : Cardinality(Matching(p[1], p[2])) < MaxSnapshots
  /\ tick' = tick + 1
  /\ now' = (tick + 1) * Minute
  /\ reads' = 0
  /\ outcome' = [i \in InstanceIds |-> NoOutcome]
  /\ \E f \in Fails :
       /\ Fault(f)
       /\ IF f
          THEN pc' = "idle" /\ UNCHANGED list
          ELSE /\ pc' = "loop"
               /\ list' = SelectSeq(InstanceOrder, LAMBDA i : i \in DOMAIN instances)
  /\ idx' = 1
  /\ UNCHANGED <<arg, res, jobs,
                   store, remote, record, err, fetched, stats, wfIdx, needsUpdate,
                 existing, toDelete, toInsert, insIdx, edits, log, hist,
                 replace, lastStart, gap>>

\* time passes while the callback runs; the callback ends within its minute
Elapse ==
  /\ pc # "idle"
  /\ now % Minute < Minute - 1
  /\ now' = now + 1
  /\ UNCHANGED <<arg, res, jobs,
                   tick, store, remote, pc, locals, faults, edits, reads, log,
                 hist, replace, lastStart, gap, outcome>>

\* the for loop is over: the callback returns
EndTick ==
  /\ pc = "loop"
  /\ idx > Len(list)
  /\ pc' = "idle"
  /\ list' = <<>> /\ idx' = 1 /\ record' = NoRecord /\ err' = ""
  /\ fetched' = <<>> /\ stats' = NoStats /\ wfIdx' = 1
  /\ needsUpdate' = FALSE /\ existing' = 0
  /\ toDelete' = <<>> /\ toInsert' = <<>> /\ insIdx' = 1
  /\ UNCHANGED <<arg, res, jobs,
                   now, tick, store, remote, faults, edits, reads, log, hist,
                 replace, lastStart, gap, outcome>>

\* models.go:181-183: the instance is not due
SkipInstance ==
  /\ pc = "loop"
  /\ idx <= Len(list)
  /\ ~shouldCheckInstance(instances[cur].last_check,
                          instances[cur].check_interval_mins, now)
  /\ idx' = idx + 1
  /\ outcome' = [outcome EXCEPT ![cur] = [kind |-> "skipped", saved |-> FALSE]]
  /\ UNCHANGED <<arg, res, jobs,
                   now, tick, store, remote, pc, list, record, err, fetched,
                 stats, wfIdx, needsUpdate, existing, toDelete, toInsert,
                 insIdx, faults, edits, reads, log, hist, replace, lastStart,
                 gap>>

\* models.go:185-197: the instance is due, syncInstance is called
StartPass ==
  /\ pc = "loop"
  /\ idx <= Len(list)
  /\ shouldCheckInstance(instances[cur].last_check,
                         instances[cur].check_interval_mins, now)
  /\ record' = instances[cur]
  /\ pc' = "fetch"
  /\ log' = EmptyLog
  /\ lastStart' = [lastStart EXCEPT ![cur] = tick]
  /\ gap' = [gap EXCEPT ![cur] = IF lastStart[cur] = 0 THEN 0 ELSE tick - lastStart[cur]]
  /\ UNCHANGED <<arg, res, jobs,
                   now, tick, store, remote, list, idx, err, fetched, stats,
                 wfIdx, needsUpdate, existing, toDelete, toInsert, insIdx,
                 faults, edits, reads, hist, replace, outcome>>

\* the log of the pass that ends, kept with the one before it
EndPass(kind, saved, final) ==
  /\ hist' = [hist EXCEPT ![cur] =
                IF @ = <<>> THEN <<final>> ELSE <<@[Len(@)], final>>]
  /\ outcome' = [outcome EXCEPT ![cur] = [kind |-> kind, saved |-> saved]]

\* models.go:218-221: GetWorkflows fails, syncInstance returns the error
GetWorkflowsFails ==
  /\ pc = "fetch"
  /\ faults < MaxFaults
  /\ faults' = faults + 1
  /\ reads' = reads + 1
  /\ err' = ErrGetWorkflows
  /\ pc' = "failsave"
  /\ log' = [log EXCEPT !.clean = FALSE]
  /\ UNCHANGED <<arg, res, jobs,
                   now, tick, store, remote, list, idx, record, fetched, stats,
                 wfIdx, needsUpdate, existing, toDelete, toInsert, insIdx,
                 edits, hist, replace, lastStart, gap, outcome>>

\* models.go:218-230 and workflow.go:17-20: the listing is fetched, the
\* statistics computed, and syncWorkflows looks its collection up
GetWorkflowsOk ==
  /\ pc = "fetch"
  /\ reads' = reads + 1
  /\ fetched' = GetWorkflows(cur)
  /\ stats' = GetInstanceStats(fetched')
  /\ wfIdx' = 1
  /\ \E f \in Fails :
       /\ Fault(f)
       /\ pc' = IF f THEN "finish" ELSE "wf"
       /\ log' = [log EXCEPT !.listing = fetched', !.clean = ~f]
  /\ UNCHANGED <<arg, res, jobs,
                   now, tick, store, remote, list, idx, record, err,
                 needsUpdate, existing, toDelete, toInsert, insIdx, edits,
                 hist, replace, lastStart, gap, outcome>>

(***************************************************************************)
(* syncWorkflows: the loop over the fetched workflows.                     *)
(***************************************************************************)
pair == <<cur, workflow.WorkflowID>>

\* why the detector took the workflow for changed: no record of the pair is
\* stored, the lookup failed, or the record found differs
Cause ==
  IF existing # 0 THEN "differs"
  ELSE IF Matching(cur, workflow.WorkflowID) = {} THEN "new" ELSE "lookup"

\* the loop over the listing is left
AbortWorkflows ==
  /\ pc' = "finish"
  /\ wfIdx' = wfIdx

\* workflow.go:22: the next workflow of the listing
NextWorkflow ==
  /\ pc' = "wf"
  /\ wfIdx' = wfIdx + 1

\* a detector that skips the workflow when the lookup fails
DetectChangeSkipsOnError ==
  /\ pc = "wf"
  /\ wfIdx <= Len(fetched)
  /\ \E f \in Fails :
       /\ Fault(f)
       /\ log' = [log EXCEPT !.clean = @ /\ ~f]
       /\ \E k \in (IF f \/ Matching(cur, workflow.WorkflowID) = {}
                    THEN {0}
                    ELSE FindRecordsByFilter(cur, workflow.WorkflowID)) :
            /\ existing' = k
            /\ needsUpdate' = (~f /\ ~(k # 0 /\ Unchanged(workflows[k], workflow)))
  /\ IF needsUpdate'
     THEN pc' = "save" /\ wfIdx' = wfIdx
     ELSE NextWorkflow
  /\ UNCHANGED <<arg, res, jobs,
                   now, tick, store, remote, list, idx, record, err, fetched,
                 stats, toDelete, toInsert, insIdx, edits, reads, hist,
                 replace, lastStart, gap, outcome>>

\* workflow.go:28-77: the change detector.  The lookup fails (err # nil) or
\* yields the first record by created_at, if any
DetectChange ==
  /\ pc = "wf"
  /\ wfIdx <= Len(fetched)
  /\ \E f \in Fails :
       /\ Fault(f)
       /\ log' = [log EXCEPT !.clean = @ /\ ~f]
       /\ \E k \in (IF f \/ Matching(cur, workflow.WorkflowID) = {}
                    THEN {0}
                    ELSE FindRecordsByFilter(cur, workflow.WorkflowID)) :
            /\ existing' = k
            /\ needsUpdate' = ~(k # 0 /\ Unchanged(workflows[k], workflow))
  /\ IF needsUpdate'
     THEN pc' = "save" /\ wfIdx' = wfIdx
     ELSE NextWorkflow
  /\ UNCHANGED <<arg, res, jobs,
                   now, tick, store, remote, list, idx, record, err, fetched,
                 stats, toDelete, toInsert, insIdx, edits, reads, hist,
                 replace, lastStart, gap, outcome>>

\* workflow.go:101-103: every workflow is processed, syncWorkflows returns
EndWorkflows ==
  /\ pc = "wf"
  /\ wfIdx > Len(fetched)
  /\ pc' = "finish"
  /\ UNCHANGED <<arg, res, jobs,
                   now, tick, store, remote, list, idx, record, err, fetched,
                 stats, wfIdx, needsUpdate, existing, toDelete, toInsert,
                 insIdx, faults, edits, reads, log, hist, replace, lastStart,
                 gap, outcome>>

\* a save that overwrites the record the lookup found
SaveWorkflowInPlace ==
  /\ pc = "save"
  /\ LET rec == createWorkflowRecord(cur, workflow)
     IN \E f \in Fails :
          /\ Fault(f)
          /\ IF f \/ ~ValidWorkflowRecord(rec)
             THEN /\ NextWorkflow
                  /\ log' = [log EXCEPT !.clean = FALSE,
                                        !.unsaved = @ \cup {<<workflow.WorkflowID, Cause>>}]
                  /\ UNCHANGED <<workflows, replace>>
             ELSE /\ workflows' = IF existing = 0
                                  THEN Append(workflows, rec)
                                  ELSE [workflows EXCEPT ![existing] = rec]
                  /\ pc' = "hooks" /\ wfIdx' = wfIdx
                  /\ log' = [log EXCEPT !.snaps = @ + 1]
                  /\ replace' = [replace EXCEPT ![pair] = "pending"]
  /\ UNCHANGED <<arg, res, jobs,
                   now, tick, instances, webhooks, remote, list, idx, record,
                 err, fetched, stats, needsUpdate, existing, toDelete,
                 toInsert, insIdx, edits, reads, hist, lastStart, gap,
                 outcome>>

\* workflow.go:79-87: a new record of the workflow is created and saved; a
\* failed save skips the workflow
SaveWorkflow ==
  /\ pc = "save"
  /\ LET rec == createWorkflowRecord(cur, workflow)
     IN \E f \in Fails :
          /\ Fault(f)
          /\ IF f \/ ~ValidWorkflowRecord(rec)
             THEN /\ NextWorkflow
                  /\ log' = [log EXCEPT !.clean = FALSE,
                                        !.unsaved = @ \cup {<<workflow.WorkflowID, Cause>>}]
                  /\ UNCHANGED <<workflows, replace>>
             ELSE /\ workflows' = Append(workflows, rec)
                  /\ pc' = "hooks" /\ wfIdx' = wfIdx
                  /\ log' = [log EXCEPT !.snaps = @ + 1]
                  /\ replace' = [replace EXCEPT ![pair] = "pending"]
  /\ UNCHANGED <<arg, res, jobs,
                   now, tick, instances, webhooks, remote, list, idx, record,
                 err, fetched, stats, needsUpdate, existing, toDelete,
                 toInsert, insIdx, edits, reads, hist, lastStart, gap,
                 outcome>>

(***************************************************************************)
(* syncWebhooks: delete the pair's records, then insert the extracted set. *)
(***************************************************************************)
\* part_004:16-32: the collection lookup and the listing of the pair's
\* records; an error of either is returned to syncWorkflows, which logs it
FindWebhooks ==
  /\ pc = "hooks"
  /\ \E f \in Fails :
       /\ Fault(f)
       /\ IF f
          THEN /\ NextWorkflow
               /\ log' = [log EXCEPT !.clean = FALSE]
               /\ replace' = [replace EXCEPT ![pair] = "stale"]
               /\ UNCHANGED toDelete
          ELSE /\ toDelete' = FindAllWebhooks(cur, workflow.WorkflowID)
               /\ pc' = "del" /\ wfIdx' = wfIdx
               /\ UNCHANGED <<log, replace>>
  /\ UNCHANGED <<arg, res, jobs,
                   now, tick, store, remote, list, idx, record, err, fetched,
                 stats, needsUpdate, existing, toInsert, insIdx, edits, reads,
                 hist, lastStart, gap, outcome>>

\* part_004:35-39: one record is deleted; a failed delete is returned
DeleteWebhook ==
  /\ pc = "del"
  /\ toDelete # <<>>
  /\ \E f \in Fails :
       /\ Fault(f)
       /\ IF f
          THEN /\ NextWorkflow
               /\ log' = [log EXCEPT !.clean = FALSE]
               /\ replace' = [replace EXCEPT ![pair] = "stale"]
               /\ UNCHANGED <<webhooks, toDelete>>
          ELSE /\ webhooks' = RemoveFirst(webhooks, Head(toDelete))
               /\ toDelete' = Tail(toDelete)
               /\ log' = [log EXCEPT !.dels = @ + 1]
               /\ UNCHANGED <<pc, wfIdx, replace>>
  /\ UNCHANGED <<arg, res, jobs,
                   now, tick, instances, workflows, remote, list, idx, record,
                 err, fetched, stats, needsUpdate, existing, toInsert, insIdx,
                 edits, reads, hist, lastStart, gap, outcome>>

\* an extraction that does not wait for the deletes
ExtractWebhooksEarly ==
  /\ pc = "del"
  /\ toInsert' = extractWebhooksFromWorkflow(workflow)
  /\ insIdx' = 1
  /\ pc' = "ins"
  /\ replace' = [replace EXCEPT ![pair] = "deleted"]
  /\ UNCHANGED <<arg, res, jobs,
                   now, tick, store, remote, list, idx, record, err, fetched,
                 stats, wfIdx, needsUpdate, existing, toDelete, faults, edits,
                 reads, log, hist, lastStart, gap, outcome>>

\* part_004:41: every record is deleted, the webhooks are extracted
ExtractWebhooks ==
  /\ pc = "del"
  /\ toDelete = <<>>
  /\ toInsert' = extractWebhooksFromWorkflow(workflow)
  /\ insIdx' = 1
  /\ pc' = "ins"
  /\ replace' = [replace EXCEPT ![pair] = "deleted"]
  /\ UNCHANGED <<arg, res, jobs,
                   now, tick, store, remote, list, idx, record, err, fetched,
                 stats, wfIdx, needsUpdate, existing, toDelete, faults, edits,
                 reads, log, hist, lastStart, gap, outcome>>

\* an insert whose failed save is returned to syncWorkflows
InsertWebhookReturns ==
  /\ pc = "ins"
  /\ insIdx <= Len(toInsert)
  /\ \E f \in Fails :
       /\ Fault(f)
       /\ IF f
          THEN /\ NextWorkflow
               /\ log' = [log EXCEPT !.clean = FALSE]
               /\ replace' = [replace EXCEPT ![pair] = "partial"]
               /\ UNCHANGED <<webhooks, insIdx>>
          ELSE /\ webhooks' = Append(webhooks,
                                     WebhookRecord(cur, workflow, toInsert[insIdx]))
               /\ insIdx' = insIdx + 1
               /\ log' = [log EXCEPT !.ins = @ + 1]
               /\ UNCHANGED <<pc, wfIdx, replace>>
  /\ UNCHANGED <<arg, res, jobs,
                   now, tick, instances, workflows, remote, list, idx,
                 record, err, fetched, stats, needsUpdate, existing,
                 toDelete, toInsert, edits, reads, hist, lastStart, gap,
                 outcome>>

\* part_004:44-100: one webhook record is built and saved; a failed save is
\* logged and the webhook skipped
InsertWebhook ==
  /\ pc = "ins"
  /\ insIdx <= Len(toInsert)
  /\ insIdx' = insIdx + 1
  /\ \E f \in Fails :
       /\ Fault(f)
       /\ IF f
          THEN /\ log' = [log EXCEPT !.clean = FALSE]
               /\ replace' = [replace EXCEPT ![pair] = "partial"]
               /\ UNCHANGED webhooks
          ELSE /\ webhooks' = Append(webhooks,
                                     WebhookRecord(cur, workflow, toInsert[insIdx]))
               /\ log' = [log EXCEPT !.ins = @ + 1]
               /\ UNCHANGED replace
  /\ UNCHANGED <<arg, res, jobs,
                   now, tick, instances, workflows, remote, pc, list, idx,
                 record, err, fetched, stats, wfIdx, needsUpdate, existing,
                 toDelete, toInsert, edits, reads, hist, lastStart, gap,
                 outcome>>

\* part_004:102: syncWebhooks returns nil
EndWebhooks ==
  /\ pc = "ins"
  /\ insIdx > Len(toInsert)
  /\ NextWorkflow
  /\ replace' = [replace EXCEPT ![pair] = IF @ = "deleted" THEN "clean" ELSE @]
  /\ UNCHANGED <<arg, res, jobs,
                   now, tick, store, remote, list, idx, record, err, fetched,
                 stats, needsUpdate, existing, toDelete, toInsert, insIdx,
                 faults, edits, reads, log, hist, lastStart, gap, outcome>>

(***************************************************************************)
(* The end of a pass.                                                      *)
(***************************************************************************)
\* models.go:236-247: the statistics and the availability are set on the
\* record and the record is saved; a failed save is returned as an error
SaveInstance ==
  /\ pc = "finish"
  /\ record' = SuccessRecord(record, stats, now)
  /\ \E f \in Fails :
       /\ Fault(f)
       /\ IF f
          THEN /\ err' = ErrUpdateInstance
               /\ pc' = "failsave"
               /\ log' = [log EXCEPT !.clean = FALSE]
               /\ UNCHANGED <<instances, idx, hist, outcome>>
          ELSE /\ instances' = [instances EXCEPT ![cur] = record']
               /\ pc' = "loop"
               /\ idx' = idx + 1
               /\ EndPass("ok", TRUE, log)
               /\ UNCHANGED <<err, log>>
  /\ UNCHANGED <<arg, res, jobs,
                   now, tick, workflows, webhooks, remote, list, fetched, stats,
                 wfIdx, needsUpdate, existing, toDelete, toInsert, insIdx,
                 edits, reads, replace, lastStart, gap>>

\* a failure handling that leaves the loop over the instances
SaveFailureBreaks ==
  /\ pc = "failsave"
  /\ record' = FailureRecord(record, err, now)
  /\ \E f \in Fails :
       /\ Fault(f)
       /\ instances' = IF f THEN instances ELSE [instances EXCEPT ![cur] = record']
       /\ EndPass(IF err = ErrGetWorkflows THEN "fetchfail" ELSE "savefail", ~f, log)
  /\ pc' = "loop"
  /\ idx' = Len(list) + 1
  /\ UNCHANGED <<arg, res, jobs,
                   now, tick, workflows, webhooks, remote, list, err, fetched,
                 stats, wfIdx, needsUpdate, existing, toDelete, toInsert,
                 insIdx, edits, reads, log, replace, lastStart, gap>>

\* models.go:198-210: syncInstance returned an error; the record is marked
\* unavailable and saved, a failed save is logged
SaveFailure ==
  /\ pc = "failsave"
  /\ record' = FailureRecord(record, err, now)
  /\ \E f \in Fails :
       /\ Fault(f)
       /\ instances' = IF f THEN instances ELSE [instances EXCEPT ![cur] = record']
       /\ EndPass(IF err = ErrGetWorkflows THEN "fetchfail" ELSE "savefail", ~f, log)
  /\ pc' = "loop"
  /\ idx' = idx + 1
  /\ UNCHANGED <<arg, res, jobs,
                   now, tick, workflows, webhooks, remote, list, err, fetched,
                 stats, wfIdx, needsUpdate, existing, toDelete, toInsert,
                 insIdx, edits, reads, log, replace, lastStart, gap>>

(***************************************************************************)
(* The environment: a remote workflow is edited.                           *)
(***************************************************************************)
RemoteEdit ==
  /\ pc = "idle"
  /\ edits < MaxEdits
  /\ edits' = edits + 1
  /\ \E i \in DOMAIN remote : \E k \in DOMAIN remote[i] :
       \/ \E t \in Stamps \ {remote[i][k].UpdatedAt} :
            remote' = [remote EXCEPT ![i][k].UpdatedAt = t]
       \/ \E t \in Stamps \ {remote[i][k].CreatedAt} :
            remote' = [remote EXCEPT ![i][k].CreatedAt = t]
       \/ remote' = [remote EXCEPT ![i][k].Active = ~@]
       \/ \E nodes \in NodeLists \ {remote[i][k].Nodes} :
            remote' = [remote EXCEPT ![i][k].Nodes = nodes]
  /\ UNCHANGED <<arg, res, jobs,
                   now, tick, store, pc, locals, faults, reads, log, hist,
                 replace, lastStart, gap, outcome>>

\* the steps of the cron callback
Callback ==
  \/ Tick \/ EndTick \/ SkipInstance \/ StartPass
  \/ GetWorkflowsFails \/ GetWorkflowsOk
  \/ DetectChange \/ EndWorkflows \/ SaveWorkflow
  \/ FindWebhooks \/ DeleteWebhook \/ ExtractWebhooks \/ InsertWebhook
  \/ EndWebhooks
  \/ SaveInstance \/ SaveFailure

\* reconciliation of one instance whose remote workflow is edited between
\* ticks; the callback takes no measurable time
NextSync == Callback \/ RemoteEdit
SyncInit == InitCommon /\ InitSync
SpecSync == SyncInit /\ [][NextSync]_vars

\* reconciliation of one instance with two workflows
MultiInit == InitCommon /\ InitMulti
SpecMulti == MultiInit /\ [][NextSync]_vars

\* the environment: a workflow is deleted on the remote instance and is no
\* longer in the listing GetWorkflows reads
RemoteRemove ==
  /\ pc = "idle"
  /\ edits < MaxEdits
  /\ edits' = edits + 1
  /\ \E i \in DOMAIN remote : \E k \in DOMAIN remote[i] :
       remote' = [remote EXCEPT ![i] = SubSeq(@, 1, k - 1) \o
                                       SubSeq(@, k + 1, Len(@))]
  /\ UNCHANGED <<arg, res, jobs,
                   now, tick, store, pc, locals, faults, reads, log, hist,
                 replace, lastStart, gap, outcome>>

\* reconciliation of one instance with two workflows, one of which is
\* removed remotely between ticks
NextRemoved == Callback \/ RemoteRemove
SpecRemoved == MultiInit /\ [][NextRemoved]_vars

\* scheduling of two instances with unedited remotes; the callback takes time
NextSched == Callback \/ Elapse
SchedInit == InitCommon /\ InitSched
SpecSched == SchedInit /\ [][NextSched]_vars

\* the callback is a goroutine that runs its code: a tick that has begun
\* takes its next step
Running ==
  \/ EndTick \/ SkipInstance \/ StartPass
  \/ GetWorkflowsFails \/ GetWorkflowsOk
  \/ DetectChange \/ EndWorkflows \/ SaveWorkflow
  \/ FindWebhooks \/ DeleteWebhook \/ ExtractWebhooks \/ InsertWebhook
  \/ EndWebhooks
  \/ SaveInstance \/ SaveFailure
SpecSchedFair == SpecSched /\ WF_vars(Running)

(***************************************************************************)
(* The cron and its callbacks.  app.Cron() starts the callback of every    *)
(* minute in a goroutine of its own, and InitCronJobs adds no guard: a     *)
(* callback that outlasts its minute (each GetWorkflows may block for 30   *)
(* seconds, client.go:25) runs beside the next one.  Each callback works   *)
(* on the records it listed when it started.  This specification follows   *)
(* the positions of the callbacks and the "instances" collection; the      *)
(* writes of syncWorkflows to the other two collections are those of       *)
(* SpecSync.                                                               *)
(***************************************************************************)
\* the time of the next cron tick
NextMinute == (tick + 1) * Minute

\* what the cron specification leaves as it is
sequential == <<workflows, webhooks, remote, pc, locals, edits, reads, log,
                hist, replace, lastStart, gap, outcome, arg, res>>

\* the instance a callback is at
JobCur(j) == InstanceOrder[jobs[j].idx]

\* a callback whose pass has ended, at the next instance of its list
JobNext(job) ==
  [job EXCEPT !.pc = "loop", !.idx = @ + 1, !.record = NoRecord, !.err = "",
              !.stats = NoStats]

\* the sequence without its k-th element
Without(q, k) == SubSeq(q, 1, k - 1) \o SubSeq(q, k + 1, Len(q))

\* models.go:172-177: the minute is over (no callback is running, or the
\* running ones have used it up); the cron starts the callback, which lists
\* the instances or fails and returns
CronTick ==
  /\ tick < MaxCronTicks
  /\ Len(jobs) < MaxJobs
  /\ jobs = <<>> \/ now = NextMinute
  /\ tick' = tick + 1
  /\ now' = NextMinute
  /\ \E f \in Fails :
       /\ Fault(f)
       /\ jobs' = IF f THEN jobs
                  ELSE Append(jobs, [pc |-> "loop", recs |-> instances, idx |-> 1,
                                     record |-> NoRecord, err |-> "",
                                     stats |-> NoStats])
  /\ UNCHANGED <<instances, sequential>>

\* time passes while callbacks run, until the next minute begins
CronElapse ==
  /\ jobs # <<>>
  /\ now < NextMinute
  /\ now' = now + 1
  /\ UNCHANGED <<tick, instances, jobs, faults, sequential>>

\* models.go:181-183: the listed record is not due
JobSkip ==
  \E j \in DOMAIN jobs :
    /\ jobs[j].pc = "loop"
    /\ jobs[j].idx <= Len(InstanceOrder)
    /\ ~shouldCheckInstance(jobs[j].recs[JobCur(j)].last_check,
                            jobs[j].recs[JobCur(j)].check_interval_mins, now)
    /\ jobs' = [jobs EXCEPT ![j].idx = @ + 1]
    /\ UNCHANGED <<now, tick, instances, faults, sequential>>

\* models.go:185-197: the listed record is due, syncInstance is called
JobStart ==
  \E j \in DOMAIN jobs :
    /\ jobs[j].pc = "loop"
    /\ jobs[j].idx <= Len(InstanceOrder)
    /\ shouldCheckInstance(jobs[j].recs[JobCur(j)].last_check,
                           jobs[j].recs[JobCur(j)].check_interval_mins, now)
    /\ jobs' = [jobs EXCEPT ![j].pc = "fetch",
                            ![j].record = jobs[j].recs[JobCur(j)]]
    /\ UNCHANGED <<now, tick, instances, faults, sequential>>

\* models.go:218-234: GetWorkflows fails and the error is returned, or the
\* statistics are computed and syncWorkflows runs
JobFetch ==
  \E j \in DOMAIN jobs :
    /\ jobs[j].pc = "fetch"
    /\ \E f \in Fails :
         /\ Fault(f)
         /\ jobs' = IF f
                    THEN [jobs EXCEPT ![j].pc = "failstamp",
                                      ![j].err = ErrGetWorkflows]
                    ELSE [jobs EXCEPT ![j].pc = "stamp",
                                      ![j].stats =
                                         GetInstanceStats(GetWorkflows(JobCur(j)))]
    /\ UNCHANGED <<now, tick, instances, sequential>>

\* models.go:237-243: the statistics, time.Now() and the availability are set
\* on the record
JobStamp ==
  \E j \in DOMAIN jobs :
    /\ jobs[j].pc = "stamp"
    /\ jobs' = [jobs EXCEPT ![j].pc = "save",
                            ![j].record = SuccessRecord(@, jobs[j].stats, now)]
    /\ UNCHANGED <<now, tick, instances, faults, sequential>>

\* models.go:245-256: the record is saved; a failed save is returned
JobSave ==
  \E j \in DOMAIN jobs :
    /\ jobs[j].pc = "save"
    /\ \E f \in Fails :
         /\ Fault(f)
         /\ IF f
            THEN /\ jobs' = [jobs EXCEPT ![j].pc = "failstamp",
                                         ![j].err = ErrUpdateInstance]
                 /\ UNCHANGED instances
            ELSE /\ jobs' = [jobs EXCEPT ![j] = JobNext(@)]
                 /\ instances' = [instances EXCEPT ![JobCur(j)] = jobs[j].record]
    /\ UNCHANGED <<now, tick, sequential>>

\* models.go:198-206: syncInstance returned an error, which is set on the
\* record with time.Now()
JobFailStamp ==
  \E j \in DOMAIN jobs :
    /\ jobs[j].pc = "failstamp"
    /\ jobs' = [jobs EXCEPT ![j].pc = "failsave",
                            ![j].record = FailureRecord(@, jobs[j].err, now)]
    /\ UNCHANGED <<now, tick, instances, faults, sequential>>

\* models.go:207-210: the record is saved, a failed save is logged
JobFailSave ==
  \E j \in DOMAIN jobs :
    /\ jobs[j].pc = "failsave"
    /\ \E f \in Fails :
         /\ Fault(f)
         /\ instances' = IF f THEN instances
                         ELSE [instances EXCEPT ![JobCur(j)] = jobs[j].record]
    /\ jobs' = [jobs EXCEPT ![j] = JobNext(@)]
    /\ UNCHANGED <<now, tick, sequential>>

\* models.go:211-212: the for loop is over, the callback returns
JobEnd ==
  \E j \in DOMAIN jobs :
    /\ jobs[j].pc = "loop"
    /\ jobs[j].idx > Len(InstanceOrder)
    /\ jobs' = Without(jobs, j)
    /\ UNCHANGED <<now, tick, instances, faults, sequential>>

NextCron ==
  \/ CronTick \/ CronElapse
  \/ JobSkip \/ JobStart \/ JobFetch \/ JobStamp
  \/ JobSave \/ JobFailStamp \/ JobFailSave \/ JobEnd

\* two instances checked every minute and every two minutes
InitCron ==
  /\ instances = [i \in InstanceIds |-> Bootstrap(IF i = "i1" THEN 1 ELSE 2)]
  /\ remote = [i \in InstanceIds |-> <<RemoteWorkflow("w1", <<NodeA1>>)>>]

CronInit == InitCommon /\ InitCron
SpecCron == CronInit /\ [][NextCron]_vars

(***************************************************************************)
(* Functions of the packages, called on their own with an argument.        *)
(***************************************************************************)
\* the call is made: f is the function's result for the argument
Apply(f) ==
  /\ res = NoCall
  /\ res' = <<f>>
  /\ UNCHANGED <<arg, jobs, now, tick, store, remote, pc, locals, faults, edits,
                 reads, log, hist, replace, lastStart, gap, outcome>>

\* the store of a process in which no tick has run
InitAlone ==
  /\ InitState
  /\ instances = [i \in {"i1"} |-> Bootstrap(1)]
  /\ remote = [i \in {"i1"} |-> <<>>]
  /\ res = NoCall

\* a queue-trigger node
NodeR == [ID |-> "nR", Type |-> RedisType, Path |-> ""]

\* workflows for the statistics: a node graph and an active flag
StatsNodeLists ==
  { <<>>, <<NodeA1>>, <<NodeA1, NodeB1>>, <<NodeS, NodeA1>>, <<NodeR>>,
    <<NodeR, NodeS, NodeS>> }
StatsWorkflows ==
  { [RemoteWorkflow("w1", nodes) EXCEPT !.Active = a] :
      nodes \in StatsNodeLists, a \in BOOLEAN }

\* the listing of the specification's example: three active workflows with
\* two webhooks each and two inactive workflows with one webhook each
StatsExample ==
  LET on == RemoteWorkflow("w1", <<NodeA1, NodeB1>>)
      off == [RemoteWorkflow("w1", <<NodeA1>>) EXCEPT !.Active = FALSE]
  IN <<on, off, on, off, on>>

\* listings of up to MaxListing workflows, and the example
StatsInputs ==
  UNION { [1 .. n -> StatsWorkflows] : n \in 0 .. MaxListing } \cup {StatsExample}

\* models.go:126-157 called on a listing
CallGetInstanceStats == Apply(GetInstanceStats(arg))
StatsInit == InitAlone /\ arg \in StatsInputs
SpecStats == StatsInit /\ [][CallGetInstanceStats]_vars

\* Notes texts are sequences of pieces: "x" a byte that is no white space,
\* " " a blank, "nl" a line feed, "route:" the marker, "long" a run of
\* MaxScanTokenSize bytes that holds no line feed, no blank and no marker.
Pieces == {"x", " ", "nl", "route:", "long"}
Size(c) == IF c = "route:" THEN 6 ELSE IF c = "long" THEN MaxScanTokenSize ELSE 1

RECURSIVE Bytes(_)
\* the length of a text in bytes
Bytes(s) == IF s = <<>> THEN 0 ELSE Size(Head(s)) + Bytes(Tail(s))

\* the position of the first piece c of s, 0 when there is none
FirstIndex(s, c) ==
  IF \E k \in DOMAIN s : s[k] = c
  THEN CHOOSE k \in DOMAIN s : s[k] = c /\ \A j \in 1 .. k - 1 : s[j] # c
  ELSE 0

RECURSIVE ScanLines(_)
\* the tokens of bufio.ScanLines: the text cut at its line feeds, without an
\* empty token after a final line feed
ScanLines(s) ==
  IF s = <<>> THEN <<>>
  ELSE LET k == FirstIndex(s, "nl")
       IN IF k = 0 THEN <<s>>
          ELSE <<SubSeq(s, 1, k - 1)>> \o ScanLines(SubSeq(s, k + 1, Len(s)))

RECURSIVE TrimSpace(_)
\* strings.TrimSpace
TrimSpace(s) ==
  IF s = <<>> THEN s
  ELSE IF Head(s) = " " THEN TrimSpace(Tail(s))
  ELSE IF s[Len(s)] = " " THEN TrimSpace(SubSeq(s, 1, Len(s) - 1))
  ELSE s

RECURSIVE ScanRoute(_)
\* part_004:127-135: the loop over scanner.Scan(); the scanner stops, with
\* an error nobody reads, at a line that does not fit its buffer
ScanRoute(lines) ==
  IF lines = <<>> THEN <<>>
  ELSE LET line == Head(lines)
           k == FirstIndex(line, "route:")
       IN IF Bytes(line) >= MaxScanTokenSize THEN <<>>
          ELSE IF k # 0 THEN TrimSpace(SubSeq(line, k + 1, Len(line)))
          ELSE ScanRoute(Tail(lines))

\* part_004:125-137
ExtractRoute(input) == ScanRoute(ScanLines(input))

\* "desc\nroute: /users/{id}\nmore"
RouteExample == <<"x", "nl", "route:", " ", "x", "nl", "x">>

\* notes of up to MaxNotes pieces, and the example
RouteInputs ==
  UNION { [1 .. n -> Pieces] : n \in 0 .. MaxNotes } \cup {RouteExample}

CallExtractRoute == Apply(ExtractRoute(arg))
RouteInit == InitAlone /\ arg \in RouteInputs
SpecRoute == RouteInit /\ [][CallExtractRoute]_vars

\* The credentials of a node, as its JSON declares them: credential types in
\* source order, each with an id and a name.
CredentialTypes == {"httpBasicAuth", "httpHeaderAuth", "jwtAuth"}
Declared ==
  { d \in UNION { [1 .. n -> CredentialTypes] : n \in 0 .. MaxCredentials } :
      \A j, k \in DOMAIN d : d[j] = d[k] => j = k }
NodeCredential(t) == [ID |-> <<"id", t>>, Name |-> <<"name", t>>]

\* models.go:45: the declaration decoded into a Go map, which keeps no order
DecodeCredentials(d) == [t \in {d[k] : k \in DOMAIN d} |-> NodeCredential(t)]

\* part_004:166: the pointer is left nil
NoCredentials == [Type |-> "", ID |-> <<>>, Name |-> <<>>]

\* part_004:164-173: the first credential the range over the map yields; the
\* order of a range over a Go map is not defined, any entry can come first
ExtractCredentials ==
  /\ Len(res) < MaxCalls
  /\ LET m == DecodeCredentials(arg)
     IN IF DOMAIN m = {}
        THEN res' = Append(res, NoCredentials)
        ELSE \E t \in DOMAIN m :
               res' = Append(res, [Type |-> t, ID |-> m[t].ID, Name |-> m[t].Name])
  /\ UNCHANGED <<arg, jobs, now, tick, store, remote, pc, locals, faults, edits,
                 reads, log, hist, replace, lastStart, gap, outcome>>

CredentialsInit == InitAlone /\ arg \in Declared
SpecCredentials == CredentialsInit /\ [][ExtractCredentials]_vars

\* One exchange with the API of an instance, as GetWorkflows meets it: whether
\* a request can be built from the host, what the transport does, the status
\* and the body of the response, and whether N8N_DEBUG is set and the debug
\* file can be written.
Statuses == {200, 204, 401, 500}
Exchanges ==
  [instance : InstanceIds, url : BOOLEAN, transport : {"ok", "refused", "timeout"},
   status : Statuses, body : {"listing", "malformed", "cut"},
   debug : BOOLEAN, writable : BOOLEAN]
Listings ==
  { <<>>,
    <<RemoteWorkflow("w1", <<NodeA1>>)>>,
    <<RemoteWorkflow("w1", <<NodeA1>>), RemoteWorkflow("w2", <<NodeA2, NodeS>>)>> }

\* client.go:86-129, GetWorkflows in one exchange x: the workflows and the
\* error it returns, and the number of requests it hands to the HTTP client
Failed(e, n) == [Data |-> <<>>, Err |-> e, Requests |-> n]
GetWorkflowsCall(x) ==
  IF ~x.url THEN Failed(<<"error creating request">>, 0)
  ELSE IF x.transport # "ok" THEN Failed(<<"error making request", x.transport>>, 1)
  ELSE IF x.status # 200
       THEN Failed(<<"API request failed with status", x.status, x.body>>, 1)
  ELSE IF x.body = "cut" THEN Failed(<<"error reading response body">>, 1)
  ELSE IF x.debug /\ ~x.writable THEN Failed(<<"error writing debug file">>, 1)
  ELSE IF x.body = "malformed" THEN Failed(<<"error decoding response">>, 1)
  ELSE [Data |-> GetWorkflows(x.instance), Err |-> <<>>, Requests |-> 1]

CallGetWorkflows == Apply(GetWorkflowsCall(arg))

FetchInit ==
  /\ InitState
  /\ instances = [i \in InstanceIds |-> Bootstrap(1)]
  /\ remote \in [InstanceIds -> Listings]
  /\ res = NoCall
  /\ arg \in Exchanges
SpecFetch == FetchInit /\ [][CallGetWorkflows]_vars

\* Strings of the proxy configuration are sequences of characters.
Alphabet == {"a", "B", "-", ".", "/", "_", ":", "{", "}"}
Strings(n) == UNION { [1 .. k -> Alphabet] : k \in 0 .. n }

\* strings.Join(parts, "-")
RECURSIVE Join(_)
Join(parts) ==
  IF parts = <<>> THEN <<>>
  ELSE IF Len(parts) = 1 THEN parts[1]
  ELSE parts[1] \o <<"-">> \o Join(Tail(parts))

\* strings.ToLower, on the letters of the model
Lower == [c \in {"B", "I"} |-> IF c = "B" THEN "b" ELSE "i"]
ToLower(s) == [k \in DOMAIN s |-> IF s[k] \in DOMAIN Lower THEN Lower[s[k]] ELSE s[k]]

\* builder_test.go:253-261, the replacer: ".", "/", "_" and ":" become "-",
\* "{" and "}" are taken out
RECURSIVE Replacer(_)
Replacer(s) ==
  IF s = <<>> THEN <<>>
  ELSE IF Head(s) \in {".", "/", "_", ":"} THEN <<"-">> \o Replacer(Tail(s))
  ELSE IF Head(s) \in {"{", "}"} THEN Replacer(Tail(s))
  ELSE <<Head(s)>> \o Replacer(Tail(s))

\* strings.Contains(name, "--")
Contains(s) == \E k \in 1 .. Len(s) - 1 : s[k] = "-" /\ s[k + 1] = "-"

\* strings.ReplaceAll(name, "--", "-"): the matches that do not overlap, from
\* the left
RECURSIVE ReplaceAll(_)
ReplaceAll(s) ==
  IF Len(s) < 2 THEN s
  ELSE IF s[1] = "-" /\ s[2] = "-" THEN <<"-">> \o ReplaceAll(SubSeq(s, 3, Len(s)))
  ELSE <<Head(s)>> \o ReplaceAll(Tail(s))

\* one pass of the replacement, not repeated
CollapseOnce(s) == ReplaceAll(s)

\* builder_test.go:263-265: the replacement is repeated while "--" occurs
RECURSIVE Collapse(_)
Collapse(s) == IF Contains(s) THEN Collapse(ReplaceAll(s)) ELSE s

\* strings.Trim(name, "-")
RECURSIVE Trim(_)
Trim(s) ==
  IF s = <<>> THEN s
  ELSE IF Head(s) = "-" THEN Trim(Tail(s))
  ELSE IF s[Len(s)] = "-" THEN Trim(SubSeq(s, 1, Len(s) - 1))
  ELSE s

\* builder_test.go:249-268
generateName(parts) == Trim(Collapse(Replacer(ToLower(Join(parts)))))

\* builder_test.go:11-37, the cases of TestResourceNamer
NamerTests ==
  <<[parts |->
       <<<<"e", "x", "a", "m", "p", "l", "e", ".", "c", "o", "m">>,
         <<"/", "a", "p", "i", "/", "u", "s", "e", "r", "s">>,
         <<"r", "o", "u", "t", "e", "r">>>>,
      expected |->
       <<"e", "x", "a", "m", "p", "l", "e", "-", "c", "o", "m", "-", "a",
         "p", "i", "-", "u", "s", "e", "r", "s", "-", "r", "o", "u", "t",
         "e", "r">>],
     [parts |->
       <<<<"a", "p", "i", ".", "e", "x", "a", "m", "p", "l", "e", ".", "c",
           "o", "m">>,
         <<"/", "a", "p", "i", "/", "u", "s", "e", "r", "s", "/", "{", "u",
           "s", "e", "r", "I", "d", "}">>,
         <<"m", "i", "d", "d", "l", "e", "w", "a", "r", "e">>>>,
      expected |->
       <<"a", "p", "i", "-", "e", "x", "a", "m", "p", "l", "e", "-", "c",
         "o", "m", "-", "a", "p", "i", "-", "u", "s", "e", "r", "s", "-",
         "u", "s", "e", "r", "i", "d", "-", "m", "i", "d", "d", "l", "e",
         "w", "a", "r", "e">>],
     [parts |->
       <<<<"t", "e", "s", "t", ".", "e", "x", "a", "m", "p", "l", "e", ".",
           "c", "o", "m">>,
         <<"/", "a", "p", "i", "/", "/", "u", "s", "e", "r", "s">>,
         <<"s", "e", "r", "v", "i", "c", "e">>>>,
      expected |->
       <<"t", "e", "s", "t", "-", "e", "x", "a", "m", "p", "l", "e", "-",
         "c", "o", "m", "-", "a", "p", "i", "-", "u", "s", "e", "r", "s",
         "-", "s", "e", "r", "v", "i", "c", "e">>],
     [parts |->
       <<<<"t", "e", "s", "t", ":", "1", "2", "3">>,
         <<"/", "a", "p", "i", "_", "{", "v", "e", "r", "s", "i", "o", "n",
           "}">>,
         <<"r", "o", "u", "t", "e", "r">>>>,
      expected |->
       <<"t", "e", "s", "t", "-", "1", "2", "3", "-", "a", "p", "i", "-",
         "v", "e", "r", "s", "i", "o", "n", "-", "r", "o", "u", "t", "e",
         "r">>]>>

\* lists of parts: one part, two short parts, and the parts of the tests
PartLists ==
  {<<>>} \cup { <<p>> : p \in Strings(MaxPart) }
         \cup (Strings(MaxShortPart) \X Strings(MaxShortPart))
         \cup { NamerTests[k].parts : k \in DOMAIN NamerTests }

CallGenerateName == Apply(generateName(arg))
NamerInit == InitAlone /\ arg \in PartLists
SpecNamer == NamerInit /\ [][CallGenerateName]_vars

\* The words generateName is called with (builder_test.go:271-283, 332-360).
Words ==
  [router |->
     <<"r", "o", "u", "t", "e", "r">>,
   service |->
     <<"s", "e", "r", "v", "i", "c", "e">>,
   middleware |->
     <<"m", "i", "d", "d", "l", "e", "w", "a", "r", "e">>,
   pathParams |->
     <<"p", "a", "t", "h", "-", "p", "a", "r", "a", "m", "s">>,
   queryParams |->
     <<"q", "u", "e", "r", "y", "-", "p", "a", "r", "a", "m", "s">>,
   basicAuth |->
     <<"b", "a", "s", "i", "c", "-", "a", "u", "t", "h">>,
   rateLimit |->
     <<"r", "a", "t", "e", "-", "l", "i", "m", "i", "t">>,
   apikey |->
     <<"a", "p", "i", "k", "e", "y">>]

\* Route definitions (integration_test.go:188-210): hosts and paths are
\* strings; the other fields take the values that addRoute tells apart.
RouteDefinitions ==
  [Host : {<<"a", ".", "b">>, <<"a", "-", "b">>, <<"c">>},
   Path : {<<"/", "x">>, <<"/", "x", "/", "{", "y", "}">>, <<"/", "x", "_", "y">>},
   PathParams : {<<>>, <<"UserID">>},
   QueryParams : {<<>>, <<"q">>},
   EntryPoints : {<<"web">>},
   Service : [Host : {"backend"}, Port : {8080}, Scheme : {"", "https"}],
   Authentication : {"nil", "basic", "apikey", "digest"}]
RouteLists == UNION { [1 .. n -> RouteDefinitions] : n \in 0 .. MaxRoutes }

\* builder_test.go:271-283
getRouterName(rd) == generateName(<<rd.Host, rd.Path, Words.router>>)
getServiceName(rd) == generateName(<<rd.Host, rd.Path, Words.service>>)
getMiddlewareName(rd, mwType) ==
  generateName(<<rd.Host, rd.Path, mwType, Words.middleware>>)

\* builder_test.go:314-321
buildServiceURL(svc) ==
  <<IF svc.Scheme = "" THEN "http" ELSE svc.Scheme, "://", svc.Host, ":", svc.Port>>

\* config.HTTP.X[name] = value, on a Go map
Put(map, name, value) == (name :> value) @@ map

\* builder_test.go:330-367: the middlewares of a route, in the order in which
\* addRoute adds them, each with its name
MiddlewaresOf(rd) ==
  (IF Len(rd.PathParams) > 0
   THEN <<[name |-> getMiddlewareName(rd, Words.pathParams),
           mw |-> [kind |-> "path-params", of |-> rd.PathParams]]>>
   ELSE <<>>)
  \o
  (IF Len(rd.QueryParams) > 0
   THEN <<[name |-> getMiddlewareName(rd, Words.queryParams),
           mw |-> [kind |-> "query-params", of |-> rd.QueryParams]]>>
   ELSE <<>>)
  \o
  (IF rd.Authentication = "basic"
   THEN <<[name |-> getMiddlewareName(rd, Words.basicAuth),
           mw |-> [kind |-> "basic-auth", of |-> <<>>]],
          [name |-> getMiddlewareName(rd, Words.rateLimit),
           mw |-> [kind |-> "rate-limit", of |-> <<>>]]>>
   ELSE IF rd.Authentication = "apikey"
   THEN <<[name |-> getMiddlewareName(rd, Words.apikey),
           mw |-> [kind |-> "apikey", of |-> <<>>]]>>
   ELSE <<>>)

RECURSIVE PutAll(_, _)
PutAll(map, entries) ==
  IF entries = <<>> THEN map
  ELSE PutAll(Put(map, Head(entries).name, Head(entries).mw), Tail(entries))

\* builder_test.go:370-377: the host rule and the path rule, joined by " && ";
\* each holds its string between backquotes
Rule(rd) == <<"Host(", rd.Host, ") && Path(", rd.Path, ")">>

\* builder_test.go:325-391
addRoute(rd, config) ==
  LET mws == MiddlewaresOf(rd)
  IN [Middlewares |-> PutAll(config.Middlewares, mws),
      Routers |->
        Put(config.Routers, getRouterName(rd),
            [EntryPoints |-> rd.EntryPoints,
             Service |-> getServiceName(rd),
             Rule |-> Rule(rd),
             Middlewares |-> [k \in DOMAIN mws |-> mws[k].name]]),
      Services |->
        Put(config.Services, getServiceName(rd),
            [URL |-> buildServiceURL(rd.Service)])]

\* builder_test.go:299-310
RECURSIVE AddRoutes(_, _)
AddRoutes(routes, config) ==
  IF routes = <<>> THEN config
  ELSE AddRoutes(Tail(routes), addRoute(Head(routes), config))
Build(routes) ==
  AddRoutes(routes, [Routers |-> <<>>, Services |-> <<>>, Middlewares |-> <<>>])

CallBuild == Apply(Build(arg))
BuilderInit == InitAlone /\ arg \in RouteLists
SpecBuilder == BuilderInit /\ [][CallBuild]_vars

(***************************************************************************)
(* Vocabulary of the properties.                                           *)
(***************************************************************************)
\* the callback is between two passes
BetweenPasses == pc \in {"idle", "loop"}

\* the step taken is the change detector's
DetectStep == pc = "wf" /\ wfIdx <= Len(fetched) /\ now' = now

\* the step taken is the due test of the for loop
DueStep == pc = "loop" /\ idx <= Len(list) /\ now' = now

\* the snapshots of a pair, oldest first, and the one stored last
SnapshotsOf(i, w) ==
  SelectSeq(workflows, LAMBDA r : r.instance = i /\ r.workflow_id = w)
LastStored(i, w) == SnapshotsOf(i, w)[Len(SnapshotsOf(i, w))]

\* the stored webhooks of a pair
StoredHooks(i, w) ==
  SelectSeq(webhooks, LAMBDA r : r.instance = i /\ r.workflow_id = w)

\* the webhook-trigger nodes of a workflow
TriggerNodes(wf) == {k \in DOMAIN wf.Nodes : wf.Nodes[k].Type = WebhookType}

\* the stored webhooks of the pair are one record per webhook-trigger node of
\* wf, and nothing else
ExactlyTheNodes(i, w, wf) ==
  LET H == StoredHooks(i, w)
  IN /\ Len(H) = Cardinality(TriggerNodes(wf))
     /\ \A k \in TriggerNodes(wf) :
          Cardinality({j \in DOMAIN H : H[j].node_id = wf.Nodes[k].ID}) = 1
     /\ \A j \in DOMAIN H :
          \E k \in TriggerNodes(wf) :
            /\ H[j].node_id = wf.Nodes[k].ID
            /\ H[j].webhook_url = <<Host(i), "/webhook/", wf.Nodes[k].Path>>

\* every stored webhook of the pair is a webhook-trigger node of wf
OnlyNodesOf(i, w, wf) ==
  \A j \in DOMAIN StoredHooks(i, w) :
    \E k \in TriggerNodes(wf) :
      /\ StoredHooks(i, w)[j].node_id = wf.Nodes[k].ID
      /\ StoredHooks(i, w)[j].webhook_url = <<Host(i), "/webhook/", wf.Nodes[k].Path>>

\* index of the record of a pair that was stored last
LastIndex(i, w) == CHOOSE k \in Matching(i, w) : \A j \in Matching(i, w) : j <= k

\* the remote triple (created_at, updated_at, active) differs from the triple
\* the remote reported when the snapshot was stored
TripleDiffers(wf, rec) ==
  \/ wf.CreatedAt # rec.workflow_data.CreatedAt
  \/ wf.UpdatedAt # rec.workflow_data.UpdatedAt
  \/ wf.Active # rec.workflow_data.Active

(***************************************************************************)
(* Claims on the reconciliation of one instance (SpecSync).                *)
(***************************************************************************)
\* C1: of two successive passes of an instance that fetch the same listing
\* and meet no persistence error, the second creates no WorkflowSnapshot and
\* creates or deletes no Webhook.
C1_Idempotent ==
  \A i \in InstanceIds :
    ( /\ faults = 0
      /\ Len(hist[i]) = 2
      /\ hist[i][1].clean /\ hist[i][2].clean
      /\ hist[i][1].listing = hist[i][2].listing )
    => ( /\ hist[i][2].snaps = 0
         /\ hist[i][2].ins = 0
         /\ hist[i][2].dels = 0 )

\* C2: the change detector, when no store call has failed, decides "changed"
\* exactly when no snapshot of the (instance, workflow id) is stored or the
\* remote triple differs from the triple of the snapshot stored last; when it
\* decides "not changed" the step writes nothing.
C2_ChangeDecision ==
  [][ (DetectStep /\ faults' = 0) =>
        /\ needsUpdate' <=>
             ( \/ Matching(cur, workflow.WorkflowID) = {}
               \/ TripleDiffers(workflow, LastStored(cur, workflow.WorkflowID)) )
        /\ ~needsUpdate' => UNCHANGED store ]_vars

\* C3: at the end of the workflow loop of a pass without persistence error,
\* for the fetched workflow and the snapshot of it that was stored last before
\* the pass, equal in created_at and active: if updated_at differs the pass
\* created exactly one snapshot and left exactly the workflow's webhooks, and
\* if updated_at is equal the pass wrote nothing.
C3_ChangeEffect ==
  (pc = "finish" /\ faults = 0 /\ log.clean /\ Len(fetched) = 1) =>
    LET wf == fetched[1]
        all == SnapshotsOf(cur, wf.WorkflowID)
        prior == SubSeq(all, 1, Len(all) - log.snaps)
        s == prior[Len(prior)]
    IN ( /\ prior # <<>>
         /\ wf.CreatedAt = s.workflow_data.CreatedAt
         /\ wf.Active = s.workflow_data.Active )
       => IF wf.UpdatedAt # s.workflow_data.UpdatedAt
          THEN log.snaps = 1 /\ ExactlyTheNodes(cur, wf.WorkflowID, wf)
          ELSE log.snaps = 0 /\ log.ins = 0 /\ log.dels = 0

\* C4: the snapshot the change detector compares the remote workflow against
\* is the one of the (instance, workflow id) that was stored last (no store
\* call having failed).
C4_ComparesMostRecent ==
  [][ (DetectStep /\ faults' = 0 /\ existing' # 0) =>
        workflows[existing'] = workflows[LastIndex(cur, workflow.WorkflowID)] ]_vars

C10_NoStaleWebhookAlways ==
  BetweenPasses =>
    \A p \in Pairs :
      Matching(p[1], p[2]) # {} =>
        OnlyNodesOf(p[1], p[2], LastStored(p[1], p[2]).workflow_data)

\* C10 as amended: the same, for the pairs whose last replace listed and
\* deleted the old records without failure (failed inserts only lose records).
C10_NoStaleWebhook ==
  BetweenPasses =>
    \A p \in Pairs :
      (Matching(p[1], p[2]) # {} /\ replace[p] \in {"clean", "partial"}) =>
        OnlyNodesOf(p[1], p[2], LastStored(p[1], p[2]).workflow_data)

\* a second version was stored, its replace lost an insert, and a webhook of
\* it is stored
C10_Witness ==
  /\ BetweenPasses
  /\ replace[<<"i1", "w1">>] = "partial"
  /\ Len(SnapshotsOf("i1", "w1")) >= 2
  /\ TriggerNodes(SnapshotsOf("i1", "w1")[1].workflow_data) # {}
  /\ StoredHooks("i1", "w1") # <<>>

\* a node that is no trigger
NodeO == [ID |-> "nO", Type |-> "n8n-nodes-base.set", Path |-> ""]

\* listings of up to MaxListing workflows whose node graphs mix the trigger
\* types and other nodes
AgreeListings ==
  LET graphs == StatsNodeLists \cup
                  {<<NodeO>>, <<NodeO, NodeA2, NodeS, NodeB1, NodeO>>}
      ws == { [RemoteWorkflow("w1", nodes) EXCEPT !.Active = a] :
                nodes \in graphs, a \in BOOLEAN }
  IN UNION { [1 .. n -> ws] : n \in 0 .. MaxListing }

\* models.go:126-157 and part_004:140-178 called on the same fetched listing
CallAggregatorAndExtractor ==
  LET ws == GetWorkflows("i1")
  IN Apply([stats |-> GetInstanceStats(ws),
            hooks |-> [k \in DOMAIN ws |-> extractWebhooksFromWorkflow(ws[k])]])
AgreeInit ==
  /\ InitState
  /\ instances = [i \in {"i1"} |-> Bootstrap(1)]
  /\ remote \in [{"i1"} -> AgreeListings]
  /\ arg = NoCall /\ res = NoCall
SpecAgree == AgreeInit /\ [][CallAggregatorAndExtractor]_vars

(***************************************************************************)
(* DownloadWorkflows (client.go).  Names are sequences of bytes.           *)
(***************************************************************************)
\* the bytes of the names: ' ', '!', '-', '1', 'B', '_' and 'a'
NameBytes == {32, 33, 45, 49, 66, 95, 97}
Names == UNION { [1 .. n -> NameBytes] : n \in 1 .. MaxName }

RECURSIVE cleanString(_)
\* client.go:190-203: letters, digits, '-' and '_' are kept, a space becomes
\* '_', every other byte is dropped
cleanString(s) ==
  IF s = <<>> THEN <<>>
  ELSE LET b == Head(s)
           rest == cleanString(Tail(s))
       IN IF \/ (b >= 97 /\ b <= 122) \/ (b >= 65 /\ b <= 90)
             \/ (b >= 48 /\ b <= 57) \/ b = 45 \/ b = 95
          THEN <<b>> \o rest
          ELSE IF b = 32 THEN <<95>> \o rest ELSE rest

\* models.go:27-37: a JSON document decoded into a Workflow.  ID and
\* InstanceID have the tag json:"-" and are not decoded; a document without
\* the keys leaves the fields at their zero values.
DecodeWorkflow(doc) ==
  [ID |-> "",
   Name |-> IF "name" \in DOMAIN doc THEN doc.name ELSE <<>>,
   WorkflowID |-> IF "id" \in DOMAIN doc THEN doc.id ELSE "",
   InstanceID |-> ""]

\* json.MarshalIndent of a Workflow: the fields tagged json:"-" are left out
MarshalWorkflow(wf) == [name |-> wf.Name, id |-> wf.WorkflowID]

\* the remote API and its faults: the documents of the listing, with names
\* and ids that differ; whether the listing request fails; which detail
\* request fails (0: none); whether a request for a path that names no
\* workflow is answered by the listing document or by an error status
Remotes ==
  LET docs == { ws \in UNION { [1 .. n -> [name : Names, id : WorkflowIds]] :
                                 n \in 0 .. MaxListing } :
                  \A j, k \in DOMAIN ws :
                     /\ ws[k].id = <<"w1", "w2">>[k]
                     /\ (j # k => ws[j].name # ws[k].name) }
  IN [data : docs, listingFails : BOOLEAN, failAt : 0 .. MaxListing,
      blank : BOOLEAN]

\* client.go:132-159: the k-th detail request of a download, made for id
GetWorkflow(api, id, k) ==
  LET known == {j \in DOMAIN api.data : api.data[j].id = id}
  IN IF k = api.failAt
     THEN [err |-> "error making request", workflow |-> DecodeWorkflow(<<>>)]
     ELSE IF known # {}
     THEN [err |-> "",
           workflow |-> [DecodeWorkflow(api.data[CHOOSE j \in known : TRUE])
                           EXCEPT !.InstanceID = "i1"]]
     ELSE IF api.blank
     THEN [err |-> "",
           workflow |-> [DecodeWorkflow([data |-> api.data])
                           EXCEPT !.InstanceID = "i1"]]
     ELSE [err |-> "API request failed with status 404",
           workflow |-> DecodeWorkflow(<<>>)]

RECURSIVE DownloadLoop(_, _, _, _, _)
\* client.go:169-186: the loop over the listed workflows from the k-th on;
\* requests are the ids asked for so far
DownloadLoop(api, workflows_, k, result, requests) ==
  IF k > Len(workflows_)
  THEN [err |-> "", files |-> result, requests |-> requests]
  ELSE LET workflow_ == workflows_[k]
           filename == <<"workflow_", cleanString(workflow_.Name), ".json">>
           full == GetWorkflow(api, workflow_.ID, k)
       IN IF full.err # ""
          THEN [err |-> full.err, files |-> <<>>,
                requests |-> Append(requests, workflow_.ID)]
          ELSE DownloadLoop(api, workflows_, k + 1,
                            Put(result, filename, MarshalWorkflow(full.workflow)),
                            Append(requests, workflow_.ID))

\* client.go:162-187: the file names and contents, or an error and a nil map
DownloadWorkflows(api) ==
  IF api.listingFails
  THEN [err |-> "error making request", files |-> <<>>, requests |-> <<>>]
  ELSE DownloadLoop(api,
                    [k \in DOMAIN api.data |->
                       [DecodeWorkflow(api.data[k]) EXCEPT !.InstanceID = "i1"]],
                    1, <<>>, <<>>)

CallDownloadWorkflows == Apply(DownloadWorkflows(arg))
DownloadInit == InitAlone /\ arg \in Remotes
SpecDownload == DownloadInit /\ [][CallDownloadWorkflows]_vars

(***************************************************************************)
(* Claims on the scheduling of several instances (SpecSched).              *)
(***************************************************************************)
\* a pass is in progress (for the instance cur)
InPass == pc \notin {"idle", "loop"}

\* the stored records of an instance
RecordsOf(i) ==
  <<instances[i],
    SelectSeq(workflows, LAMBDA r : r.instance = i),
    SelectSeq(webhooks, LAMBDA r : r.instance = i)>>

\* a tick in which the fetch of x failed has processed every other instance
Isolated(x) ==
  \A y \in DOMAIN instances \ {x} : outcome[y].kind # "none"

\* the stored record of x says unavailable, with a note
MarkedUnavailable(x) ==
  /\ ~instances[x].availability_status
  /\ instances[x].availability_note # ""

C7_Dueness ==
  [][ DueStep =>
        LET r == instances[cur]
            k == IF r.check_interval_mins = 0 THEN 5 ELSE r.check_interval_mins
        IN IF now > r.last_check + k * Minute
           THEN pc' = "fetch"
           ELSE /\ pc' = "loop" /\ idx' = idx + 1
                /\ UNCHANGED <<store, reads, remote>> ]_vars

\* an instance with interval 0, checked before, is given a pass at most six
\* minutes after its last check, having been skipped in the tick before
C7_Witness ==
  /\ pc = "fetch"
  /\ record.check_interval_mins = 0
  /\ record.last_check # ZeroTime
  /\ now <= record.last_check + 6 * Minute
  /\ tick - lastStart[cur] = 0
  /\ gap[cur] > 1

\* C8: with one tick per minute and no call failing, two consecutive passes
\* of an instance with configured interval k >= 1 start exactly max(k, 1)
\* ticks apart.
C8_Cadence ==
  \A i \in DOMAIN instances :
    (faults = 0 /\ gap[i] # 0 /\ instances[i].check_interval_mins >= 1) =>
      gap[i] = Max(instances[i].check_interval_mins, 1)

\* C9: every stored Instance record with availability_status = false has a
\* non-empty availability_note.
C9_AvailabilityNote ==
  \A i \in DOMAIN instances :
    ~instances[i].availability_status => instances[i].availability_note # ""

(***************************************************************************)
(* Claims on the handling of failures.                                     *)
(***************************************************************************)
\* the last pass of an instance met no failing call and fetched the workflow
\* exactly as the snapshot of the pair that was stored last records it
HealingPass(i, w) ==
  /\ hist[i] # <<>>
  /\ hist[i][Len(hist[i])].clean
  /\ \E k \in DOMAIN hist[i][Len(hist[i])].listing :
       hist[i][Len(hist[i])].listing[k] = LastStored(i, w).workflow_data

\* C11: between passes, when the webhook replace that followed the last
\* stored snapshot of a pair did not complete and a later pass of the instance
\* has run without failure on the unchanged remote workflow, the stored
\* webhooks of the pair are exactly the workflow's webhook-trigger nodes.
C11_SelfHealing ==
  BetweenPasses =>
    \A p \in Pairs :
      (replace[p] \in {"stale", "partial"} /\ HealingPass(p[1], p[2])) =>
        ExactlyTheNodes(p[1], p[2], LastStored(p[1], p[2]).workflow_data)

(***************************************************************************)
(* Claims on the cron and its callbacks (SpecCron).                        *)
(***************************************************************************)
\* C12: at most one callback of the cron is running (a tick begins only when
\* the tick before it has returned), so that no two passes are in progress
\* at once.
C12_NonReentrant == Len(jobs) <= 1

\* C14: no step lowers the stored last_check of an instance.
C14_LastCheckMonotone ==
  [][ \A i \in DOMAIN instances :
        instances'[i].last_check >= instances[i].last_check ]_vars

(***************************************************************************)
(* Claims on what a pass records on its instance.                          *)
(***************************************************************************)
\* the step that ends the pass of the instance cur
PassEnds == pc \in {"finish", "failsave"} /\ pc' = "loop"

\* the interval of a record in minutes, 0 counting as the default
IntervalOf(r) ==
  IF r.check_interval_mins = 0 THEN DefaultInterval ELSE r.check_interval_mins

\* C13 as stated: when a pass ends, succeeded or failed, the stored last_check
\* of its instance is the time of that pass.
C13_LastCheckAlways ==
  [][ PassEnds => instances'[cur].last_check = now ]_vars

\* C13 as amended: when a pass ends and a save of its instance record
\* succeeded, the stored last_check is the time of that pass and no due test
\* up to the interval later gives the instance a pass; when no save
\* succeeded the stored last_check is the one from before the pass.
C13_LastCheckWhenSaved ==
  [][ PassEnds =>
        IF outcome'[cur].saved
        THEN /\ instances'[cur].last_check = now
             /\ \A t \in now .. now + IntervalOf(instances'[cur]) * Minute :
                  ~shouldCheckInstance(instances'[cur].last_check,
                                       instances'[cur].check_interval_mins, t)
        ELSE instances'[cur].last_check = instances[cur].last_check ]_vars

\* the fetch of the first instance failed in two passes, more than its
\* interval apart, and the second failure has just been recorded
C13_Witness ==
  /\ pc = "loop"
  /\ outcome["i1"] = [kind |-> "fetchfail", saved |-> TRUE]
  /\ faults = 2
  /\ gap["i1"] > instances["i1"].check_interval_mins
  /\ instances["i1"].check_interval_mins >= 1
  /\ instances["i1"].last_check = now

\* the stored snapshots and webhooks of an instance
WritesOf(x) == <<RecordsOf(x)[2], RecordsOf(x)[3]>>

\* the step of the pass of cur in which GetWorkflows fails
FetchFails == pc = "fetch" /\ pc' = "failsave"

\* the step that handles the failed fetch of cur
FetchFailureHandled == pc = "failsave" /\ err = ErrGetWorkflows /\ now' = now

\* C15 as stated: the handling of a failed fetch leaves the Instance stored
\* with availability_status = false and the error text as its note, and
\* writes no snapshot and no webhook.
C15_FetchFailureStored ==
  [][ FetchFailureHandled =>
        /\ ~instances'[cur].availability_status
        /\ instances'[cur].availability_note = ErrGetWorkflows
        /\ UNCHANGED <<workflows, webhooks>> ]_vars

\* C15 as amended: when GetWorkflows fails the pass sets availability_status
\* = false and the error text as note on the record and saves it, which
\* stores exactly this record or, if the save fails, leaves the stored one
\* as it was; the pass then stops, and no step of the tick, before or after,
\* creates, changes or deletes a snapshot or a webhook of that instance.
C15_FetchFailure ==
  [][ /\ FetchFails => (err' = ErrGetWorkflows /\ UNCHANGED store)
      /\ FetchFailureHandled =>
           /\ ~record'.availability_status
           /\ record'.availability_note = ErrGetWorkflows
           /\ instances' = IF outcome'[cur].saved
                           THEN [instances EXCEPT ![cur] = record']
                           ELSE instances
           /\ outcome'[cur].kind = "fetchfail"
           /\ pc' = "loop" /\ idx' = idx + 1
           /\ UNCHANGED <<workflows, webhooks>>
      /\ \A x \in DOMAIN instances :
           \/ InPass /\ cur = x /\ ~FetchFails /\ ~FetchFailureHandled
           \/ WritesOf(x)' = WritesOf(x)
      /\ \A x \in DOMAIN instances :
           (outcome[x].kind = "fetchfail" /\ tick' = tick) =>
              RecordsOf(x)' = RecordsOf(x) ]_vars

\* an instance that a pass before had stored as available, with a snapshot
\* and a webhook, has just had its fetch fail and the failure stored
C15_Witness ==
  /\ pc = "loop"
  /\ outcome["i1"] = [kind |-> "fetchfail", saved |-> TRUE]
  /\ ~instances["i1"].availability_status
  /\ instances["i1"].availability_note = ErrGetWorkflows
  /\ instances["i1"].workflows_active = 1
  /\ WritesOf("i1")[1] # <<>> /\ WritesOf("i1")[2] # <<>>

\* the step that follows a failed save of the outcome of a pass that had
\* fetched and processed its workflows
SaveFailureHandled == pc = "failsave" /\ err = ErrUpdateInstance /\ now' = now

\* C16: when the save of the Instance record at the end of an otherwise
\* successful pass has failed, nothing more is written to that record in the
\* tick: its stored status, note and counters stay as before the pass.
C16_NoFurtherWrite ==
  [][ SaveFailureHandled => instances'[cur] = instances[cur] ]_vars

\* the step that saves the outcome of a pass whose fetch succeeded
OutcomeSaved == pc = "finish" /\ pc' = "loop"

\* the fetched workflows with the given active flag
WorkflowsWith(active) == {k \in DOMAIN fetched : fetched[k].Active = active}

\* the webhook-trigger nodes of the fetched workflows with the given flag
WebhooksWith(active) ==
  UNION { {<<k, n>> : n \in TriggerNodes(fetched[k])} :
            k \in WorkflowsWith(active) }

\* C17: the save that ends a pass whose fetch succeeded stores the Instance
\* with availability_status = true, an empty note, last_check = the time of
\* the pass and the counts of active and inactive workflows and webhooks of
\* the whole remote listing, whatever writes of the pass failed.
C17_SuccessOutcome ==
  [][ OutcomeSaved =>
        LET r == instances'[cur]
        IN /\ r.availability_status
           /\ r.availability_note = ""
           /\ r.last_check = now
           /\ fetched = GetWorkflows(cur)
           /\ r.workflows_active = Cardinality(WorkflowsWith(TRUE))
           /\ r.workflows_inactive = Cardinality(WorkflowsWith(FALSE))
           /\ r.webhooks_active = Cardinality(WebhooksWith(TRUE))
           /\ r.webhooks_inactive = Cardinality(WebhooksWith(FALSE))
           /\ r.check_interval_mins = instances[cur].check_interval_mins ]_vars

\* a pass in which a write failed has stored its outcome: available, one
\* active workflow with one webhook, one inactive workflow with two
C17_Witness ==
  /\ pc = "loop"
  /\ outcome["i1"] = [kind |-> "ok", saved |-> TRUE]
  /\ ~hist["i1"][Len(hist["i1"])].clean
  /\ instances["i1"].availability_status
  /\ instances["i1"].workflows_active = 1
  /\ instances["i1"].workflows_inactive = 1
  /\ instances["i1"].webhooks_active = 1
  /\ instances["i1"].webhooks_inactive = 2

(***************************************************************************)
(* Claims on the containment of failures (SpecMulti, SpecSync).            *)
(***************************************************************************)
\* the step in which the webhook replace of the current workflow fails at
\* the collection lookup, the listing or a delete
ReplaceFails == pc \in {"hooks", "del"} /\ replace'[pair] = "stale"

\* every workflow of the listing after the first was change-detected and,
\* if the store takes its record, has an unchanged snapshot stored with
\* exactly the webhooks of the snapshot stored last
LaterWorkflowsDone ==
  /\ wfIdx > Len(fetched)
  /\ \A k \in 2 .. Len(fetched) :
       LET w == fetched[k]
           id == w.WorkflowID
       IN \/ ~ValidWorkflowRecord(createWorkflowRecord(cur, w))
          \/ /\ \E j \in Matching(cur, id) : Unchanged(workflows[j], w)
             /\ replace[<<cur, id>>] = "clean"
             /\ ExactlyTheNodes(cur, id, LastStored(cur, id).workflow_data)

\* C18: a failed webhook replace of one workflow (lookup, listing or delete)
\* moves the pass on to the next workflow of the same listing, and when the
\* loop ends after a failed replace of the first workflow, the only failure
\* so far, every later workflow has been change-detected and, if changed,
\* stored with its webhooks.
C18_WorkflowContainment ==
  [][ /\ ReplaceFails =>
           /\ pc' = "wf" /\ wfIdx' = wfIdx + 1
           /\ UNCHANGED <<fetched, list, idx, store>>
      /\ (pc = "wf" /\ pc' = "finish" /\ faults = 1
            /\ replace[<<cur, "w1">>] = "stale") =>
           LaterWorkflowsDone ]_vars

\* in the first pass the replace of the first workflow failed, and the
\* second workflow was stored with its two webhooks
C18_Witness ==
  /\ pc = "finish"
  /\ tick = 1
  /\ faults = 1
  /\ replace[<<"i1", "w1">>] = "stale"
  /\ replace[<<"i1", "w2">>] = "clean"
  /\ log.snaps = 2
  /\ Len(StoredHooks("i1", "w2")) = 2
  /\ StoredHooks("i1", "w1") = <<>>

\* the step in which the save of one webhook record fails
InsertFails ==
  pc = "ins" /\ insIdx <= Len(toInsert) /\ faults' = faults + 1

\* C19: a failed save of one webhook record skips that webhook and goes on
\* with the next extracted webhook of the same workflow; when the replace
\* ends with that one failure, every other extracted webhook is stored, and
\* the pass goes on to the later workflows of the listing.
C19_WebhookContainment ==
  [][ /\ InsertFails =>
           /\ pc' = "ins" /\ insIdx' = insIdx + 1
           /\ UNCHANGED <<toInsert, wfIdx, fetched, list, idx, store>>
      /\ (pc = "ins" /\ pc' = "wf" /\ faults = 1
            /\ replace[pair] = "partial") =>
           /\ wfIdx' = wfIdx + 1
           /\ Len(StoredHooks(cur, workflow.WorkflowID)) = Len(toInsert) - 1
           /\ OnlyNodesOf(cur, workflow.WorkflowID, workflow)
           /\ \A j, k \in DOMAIN StoredHooks(cur, workflow.WorkflowID) :
                StoredHooks(cur, workflow.WorkflowID)[j].node_id =
                  StoredHooks(cur, workflow.WorkflowID)[k].node_id => j = k
      /\ (pc = "wf" /\ pc' = "finish" /\ faults = 1
            /\ replace[<<cur, "w1">>] = "partial") =>
           LaterWorkflowsDone ]_vars

\* the insert of the first of the two webhooks of a workflow failed and the
\* second was stored; the replace is over
C19_Witness ==
  /\ pc = "finish"
  /\ faults = 1
  /\ replace[<<"i1", "w2">>] = "partial"
  /\ Len(extractWebhooksFromWorkflow(fetched[2])) = 2
  /\ Len(StoredHooks("i1", "w2")) = 1
  /\ StoredHooks("i1", "w2")[1].node_id = NodeB1.ID

(***************************************************************************)
(* Claims on the progress of a tick (SpecSchedFair).                       *)
(***************************************************************************)
\* the step in which the callback returns after its loop
TickEnds == pc = "loop" /\ pc' = "idle"

\* when the callback returns, every listed instance was skipped or given a
\* pass, and a skipped one was not due when the instances were listed
AllDueAttempted ==
  [][ TickEnds =>
        \A x \in DOMAIN instances :
          /\ outcome[x].kind # "none"
          /\ outcome[x].kind = "skipped" =>
               ~shouldCheckInstance(instances[x].last_check,
                                    instances[x].check_interval_mins,
                                    tick * Minute) ]_vars

\* a tick that has begun returns
TickTerminates == pc # "idle" ~> pc = "idle"

\* C20: a tick whose listing succeeded terminates, and every instance that
\* was due when the instances were listed has been given a pass, whatever
\* the passes before it came to.
C20_EveryDueAttempted == AllDueAttempted /\ TickTerminates

\* the fetch of the first instance failed and so did the save of the
\* failure; the second instance was given a pass all the same
C20_Witness ==
  /\ pc = "idle"
  /\ faults = 2
  /\ outcome["i1"] = [kind |-> "fetchfail", saved |-> FALSE]
  /\ outcome["i2"].kind = "ok"

(***************************************************************************)
(* Claims on what is written, and by whom (SpecMulti, SpecSched).          *)
(***************************************************************************)
\* the step that handles a change the detector has decided
ChangeHandled == pc = "save" /\ now' = now

\* C21 as stated: no step changes or removes a stored snapshot, and the
\* handling of every detected change adds exactly one snapshot of the
\* (instance, workflow id) of the workflow.
C21_OneSnapshotPerChange ==
  [][ /\ Len(workflows') >= Len(workflows)
      /\ SubSeq(workflows', 1, Len(workflows)) = workflows
      /\ ChangeHandled =>
           workflows' = Append(workflows, createWorkflowRecord(cur, workflow)) ]_vars

\* C21 as amended: no step changes or removes a stored snapshot; the
\* handling of a detected change adds one snapshot of the (instance, workflow
\* id) of the workflow when the store takes the record and none when the
\* save fails, and no other step adds a snapshot.
C21_AppendOnly ==
  [][ /\ SubSeq(workflows', 1, Len(workflows)) = workflows
      /\ Len(workflows') \in {Len(workflows), Len(workflows) + 1}
      /\ workflows' # workflows => ChangeHandled
      /\ ChangeHandled =>
           IF pc' = "hooks"
           THEN /\ workflows' = Append(workflows, createWorkflowRecord(cur, workflow))
                /\ workflows'[Len(workflows')].instance = cur
                /\ workflows'[Len(workflows')].workflow_id = workflow.WorkflowID
           ELSE workflows' = workflows /\ ~log'.clean ]_vars

\* a second detected change of a workflow has added a second snapshot beside
\* the first
C21_Witness ==
  /\ pc = "hooks"
  /\ Cardinality(Matching("i1", "w2")) = 2
  /\ Cardinality(Matching("i1", "w1")) = 1
  /\ SnapshotsOf("i1", "w2")[1].updated_at # SnapshotsOf("i1", "w2")[2].updated_at

\* C22: the stored record of an instance is written only by a callback that
\* is saving the outcome of a pass of that instance, and only while the
\* stored record is due; no step removes an instance.
C22_InstanceOwnership ==
  [][ /\ DOMAIN instances' = DOMAIN instances
      /\ \A x \in DOMAIN instances :
           instances'[x] # instances[x] =>
             /\ \E j \in DOMAIN jobs :
                  jobs[j].pc \in {"save", "failsave"} /\ JobCur(j) = x
             /\ shouldCheckInstance(instances[x].last_check,
                                    instances[x].check_interval_mins, now) ]_vars

\* the same for the callbacks that run one at a time
C22_SequentialOwnership ==
  [][ /\ DOMAIN instances' = DOMAIN instances
      /\ \A x \in DOMAIN instances :
           instances'[x] # instances[x] =>
             /\ pc \in {"finish", "failsave"} /\ cur = x
             /\ shouldCheckInstance(instances[x].last_check,
                                    instances[x].check_interval_mins, now) ]_vars

(***************************************************************************)
(* Claims on the functions called on their own.                            *)
(***************************************************************************)
\* the workflows of a listing with the given active flag
Flagged(ws, active) == {k \in DOMAIN ws : ws[k].Active = active}

\* the nodes of type t in the workflows of a listing picked by ks
NodesOfType(ws, ks, t) ==
  UNION { {<<k, n>> : n \in {m \in DOMAIN ws[k].Nodes : ws[k].Nodes[m].Type = t}} :
            k \in ks }

\* C23: for every listing GetInstanceStats returns the number of workflows,
\* of active and of inactive workflows, of webhook-trigger nodes in active
\* and in inactive workflows, their sum as the total, and the numbers of
\* queue-trigger and schedule-trigger nodes (3, 2, 6, 2 and 8 for the
\* example); the call writes nothing.
C23_Statistics ==
  /\ res # NoCall =>
       LET st == res[1]
       IN /\ st.TotalWorkflows = Len(arg)
          /\ st.ActiveWorkflows = Cardinality(Flagged(arg, TRUE))
          /\ st.InactiveWorkflows = Cardinality(Flagged(arg, FALSE))
          /\ st.ActiveWebhooks =
               Cardinality(NodesOfType(arg, Flagged(arg, TRUE), WebhookType))
          /\ st.InactiveWebhooks =
               Cardinality(NodesOfType(arg, Flagged(arg, FALSE), WebhookType))
          /\ st.TotalWebhooks = st.ActiveWebhooks + st.InactiveWebhooks
          /\ st.RedisTriggers = Cardinality(NodesOfType(arg, DOMAIN arg, RedisType))
          /\ st.ScheduledTriggers =
               Cardinality(NodesOfType(arg, DOMAIN arg, ScheduleType))
          /\ arg = StatsExample =>
               /\ st.ActiveWorkflows = 3 /\ st.InactiveWorkflows = 2
               /\ st.ActiveWebhooks = 6 /\ st.InactiveWebhooks = 2
               /\ st.TotalWebhooks = 8
  /\ workflows = <<>> /\ webhooks = <<>>
  /\ instances = [i \in {"i1"} |-> Bootstrap(1)]

\* the statistics of the example have been computed
C23_Witness ==
  /\ arg = StatsExample
  /\ res # NoCall
  /\ res[1].TotalWebhooks = 8

\* r is s without the blanks at its two ends
Trimmed(s, r) ==
  /\ r = <<>> \/ (r[1] # " " /\ r[Len(r)] # " ")
  /\ \E a, b \in 0 .. Len(s) :
       /\ a + Len(r) + b = Len(s)
       /\ r = SubSeq(s, a + 1, a + Len(r))
       /\ \A k \in (1 .. a) \cup (Len(s) - b + 1 .. Len(s)) : s[k] = " "

\* C24: ExtractRoute returns what follows the first marker of the text up
\* to the end of its line, without the blanks at its ends, and the empty
\* text when the text holds no marker.
C24_RouteLabel ==
  res # NoCall =>
    LET marks == {k \in DOMAIN arg : arg[k] = "route:"}
    IN IF marks = {}
       THEN res[1] = <<>>
       ELSE LET p == CHOOSE k \in marks : \A j \in marks : k <= j
                ends == {k \in DOMAIN arg : k > p /\ arg[k] = "nl"} \cup {Len(arg) + 1}
                e == CHOOSE k \in ends : \A j \in ends : k <= j
            IN Trimmed(SubSeq(arg, p + 1, e - 1), res[1])

\* C25: every extraction of the webhooks of a node keeps the credential the
\* node declares first (none when it declares none), so that two
\* extractions keep the same one.
C25_FirstCredential ==
  \A k \in DOMAIN res :
    res[k] = IF arg = <<>> THEN NoCredentials
             ELSE [Type |-> arg[1], ID |-> NodeCredential(arg[1]).ID,
                   Name |-> NodeCredential(arg[1]).Name]

\* C26: the URL of every webhook extracted from a workflow of an instance is
\* the base URL of the instance, "/webhook/" and the path of the node, and
\* the webhook_url stored for the webhook has the same value.
C26_WebhookURL ==
  /\ \A k \in DOMAIN toInsert :
       toInsert[k].URL = <<Host(toInsert[k].InstanceID), "/webhook/", toInsert[k].Path>>
  /\ pc = "ins" =>
       \A k \in 1 .. insIdx - 1 :
         \E j \in DOMAIN StoredHooks(cur, workflow.WorkflowID) :
           LET r == StoredHooks(cur, workflow.WorkflowID)[j]
           IN r.node_id = toInsert[k].NodeID /\ r.webhook_url = toInsert[k].URL

\* what GetWorkflows returned on an error, and on success
ReturnsError(r) == r.Err # <<>> /\ r.Data = <<>>
ReturnsListing(r, i) ==
  /\ r.Err = <<>>
  /\ Len(r.Data) = Len(remote[i])
  /\ \A k \in DOMAIN r.Data :
       /\ r.Data[k].InstanceID = i
       /\ r.Data[k].WorkflowID = remote[i][k].WorkflowID
       /\ r.Data[k].Nodes = remote[i][k].Nodes
Carries(e, status, body) == Len(e) = 3 /\ e[2] = status /\ e[3] = body

\* C27: GetWorkflows returns an error and no workflows on a transport
\* failure, on a response that is not 200 (the error carries status and
\* body) and on malformed JSON, and otherwise the listed workflows, each
\* stamped with the id of the instance; it issues exactly one request.
C27_ResultContract ==
  res # NoCall =>
    LET r == res[1]
    IN /\ r.Requests = 1
       /\ IF arg.transport # "ok" THEN ReturnsError(r)
          ELSE IF arg.status # 200
               THEN ReturnsError(r) /\ Carries(r.Err, arg.status, arg.body)
          ELSE IF arg.body = "malformed" THEN ReturnsError(r)
          ELSE ReturnsListing(r, arg.instance)

\* C27, amended: an error and no workflows are returned also when no request
\* can be built (then no request is issued), when the body cannot be read
\* and when the debug file cannot be written; at most one request is issued.
C27_ResultContractAmended ==
  res # NoCall =>
    LET r == res[1]
    IN /\ r.Requests = IF arg.url THEN 1 ELSE 0
       /\ IF ~arg.url \/ arg.transport # "ok" THEN ReturnsError(r)
          ELSE IF arg.status # 200
               THEN ReturnsError(r) /\ Carries(r.Err, arg.status, arg.body)
          ELSE IF \/ arg.body \in {"malformed", "cut"}
                  \/ arg.debug /\ ~arg.writable
               THEN ReturnsError(r)
          ELSE ReturnsListing(r, arg.instance)

C27_Witness ==
  /\ res # NoCall
  /\ arg.instance = "i2"
  /\ res[1].Err = <<>>
  /\ Len(res[1].Data) = 2

\* the characters that generateName turns into "-", "-" itself included
Separator(c) == c \in {"-", ".", "/", "_", ":"}

\* the parts joined and lower-cased, without the braces
Joined(parts) == SelectSeq(ToLower(Join(parts)), LAMBDA c : c \notin {"{", "}"})

\* the positions in m of the characters that are no separators
Kept(m) == SelectSeq([k \in 1 .. Len(m) |-> k], LAMBDA k : ~Separator(m[k]))

\* the place in the name of the k-th kept character: one "-" goes before it
\* for each earlier neighbour pair that separators keep apart
Place(m, k) ==
  k + Cardinality({j \in 1 .. k - 1 : Kept(m)[j + 1] > Kept(m)[j] + 1})

\* C28: generateName returns the parts joined by "-", lower-cased, with ".",
\* "/", "_" and ":" turned into "-" and the braces removed, without "--" and
\* with no "-" at either end; the result is a fixed point of generateName;
\* the cases of TestResourceNamer give the expected names.
C28_Normalised ==
  res # NoCall =>
    LET name == res[1]
        m == Joined(arg)
        n == Len(Kept(m))
    IN /\ ~Contains(name)
       /\ name # <<>> => name[1] # "-" /\ name[Len(name)] # "-"
       /\ Len(name) = IF n = 0 THEN 0 ELSE Place(m, n)
       /\ \A k \in 1 .. n : name[Place(m, k)] = m[Kept(m)[k]]
       /\ \A k \in DOMAIN name :
            (\A j \in 1 .. n : Place(m, j) # k) => name[k] = "-"
       /\ generateName(<<name>>) = name
       /\ \A t \in DOMAIN NamerTests :
            arg = NamerTests[t].parts => name = NamerTests[t].expected

\* a name in which a run of three separators was collapsed
C28_Witness ==
  /\ res # NoCall
  /\ arg = <<<<"a", ".">>, <<"/", "B">>>>
  /\ res[1] = <<"a", "-", "b">>

\* C29: in the configuration Build returns, the Service of every router is
\* an entry of Services, every name in the Middlewares of every router is an
\* entry of Middlewares, and every route has a router under the name made
\* from its host and path, whose rule is the host rule of its host && the
\* path rule of its path.
C29_ReferentialIntegrity ==
  res # NoCall =>
    LET config == res[1]
    IN /\ \A n \in DOMAIN config.Routers :
            /\ config.Routers[n].Service \in DOMAIN config.Services
            /\ \A k \in DOMAIN config.Routers[n].Middlewares :
                 config.Routers[n].Middlewares[k] \in DOMAIN config.Middlewares
       /\ \A j \in DOMAIN arg :
            /\ getRouterName(arg[j]) \in DOMAIN config.Routers
            /\ config.Routers[getRouterName(arg[j])].Rule = Rule(arg[j])

\* the (host, path) pairs of a list of routes
HostPaths(routes) == {<<routes[j].Host, routes[j].Path>> : j \in DOMAIN routes}

\* C30: two routes of one Build call with different (host, path) get
\* different router, service and middleware names, and the configuration
\* holds one router and one service for each (host, path).
C30_UniqueNames ==
  res # NoCall =>
    /\ \A j, k \in DOMAIN arg :
         <<arg[j].Host, arg[j].Path>> # <<arg[k].Host, arg[k].Path>> =>
           /\ getRouterName(arg[j]) # getRouterName(arg[k])
           /\ getServiceName(arg[j]) # getServiceName(arg[k])
           /\ \A a \in DOMAIN MiddlewaresOf(arg[j]), b \in DOMAIN MiddlewaresOf(arg[k]) :
                MiddlewaresOf(arg[j])[a].name # MiddlewaresOf(arg[k])[b].name
    /\ Cardinality(DOMAIN res[1].Routers) = Cardinality(HostPaths(arg))
    /\ Cardinality(DOMAIN res[1].Services) = Cardinality(HostPaths(arg))

\* the writes of a step, told by what they do to the collections
SnapshotWrite == Len(workflows') > Len(workflows)
WebhookDelete == Len(webhooks') < Len(webhooks)
WebhookInsert == Len(webhooks') > Len(webhooks)
InstanceWrite == instances' # instances

\* C31: in a pass, the snapshot of a changed workflow is saved before a
\* webhook record of its pair is deleted, the deletes of the pair come before
\* its inserts, and the instance record is written after the workflow and
\* webhook writes of every workflow of the pass.
C31_WriteOrdering ==
  [][/\ WebhookDelete =>
          /\ workflows # <<>>
          /\ workflows[Len(workflows)] = createWorkflowRecord(cur, workflow)
          /\ log.snaps > 0
          /\ replace[pair] = "pending"
     /\ WebhookInsert =>
          /\ toDelete = <<>>
          /\ \A j \in DOMAIN StoredHooks(cur, workflow.WorkflowID) :
               \E k \in 1 .. insIdx - 1 :
                 StoredHooks(cur, workflow.WorkflowID)[j]
                   = WebhookRecord(cur, workflow, toInsert[k])
          /\ Len(StoredHooks(cur, workflow.WorkflowID)) < insIdx
     /\ SnapshotWrite \/ WebhookDelete \/ WebhookInsert =>
          /\ pc \in {"save", "del", "ins"}
          /\ record = instances[cur]
          /\ outcome[cur].kind = "none"
     /\ InstanceWrite =>
          /\ pc \in {"finish", "failsave"}
          /\ pc = "finish" => wfIdx > Len(fetched) \/ log.snaps + log.dels + log.ins = 0
    ]_vars

\* a pass that saved snapshots, deleted and inserted webhook records and
\* then wrote the instance record
C31_Witness ==
  /\ pc = "loop"
  /\ \E i \in DOMAIN instances :
       /\ hist[i] # <<>>
       /\ hist[i][Len(hist[i])].snaps > 1
       /\ hist[i][Len(hist[i])].dels > 0
       /\ hist[i][Len(hist[i])].ins > 0
       /\ outcome[i] = [kind |-> "ok", saved |-> TRUE]

\* the step in which the save of a new snapshot fails
SnapshotSaveFails == pc = "save" /\ pc' = "wf" /\ now' = now

\* the last pass of cur that ended found the workflow the detector is at
\* changed (no record stored, or the record found differs) and failed to save
\* its snapshot, and the remote is as it was then
RetryDue ==
  /\ DetectStep
  /\ hist[cur] # <<>>
  /\ \E c \in {"new", "differs"} :
       <<workflow.WorkflowID, c>> \in hist[cur][Len(hist[cur])].unsaved
  /\ hist[cur][Len(hist[cur])].listing = fetched

LookupFails == DetectStep /\ faults' = faults + 1

\* C33: when the lookup of the stored snapshot fails, the workflow is taken
\* for changed: a new snapshot is created and saved, also when an identical
\* one is stored, and the webhook replace follows the save.
C33_ReadFailureIsChange ==
  [][/\ LookupFails => needsUpdate' /\ existing' = 0 /\ pc' = "save"
     /\ (pc = "save" /\ Cause = "lookup" /\ SnapshotWrite) =>
          /\ workflows' = Append(workflows, createWorkflowRecord(cur, workflow))
          /\ pc' = "hooks"
    ]_vars

\* after a failed lookup a snapshot was saved that equals one stored before
C33_Witness ==
  /\ pc = "hooks"
  /\ existing = 0
  /\ \E k \in 1 .. Len(workflows) - 1 : workflows[k] = workflows[Len(workflows)]

\* the stored counters of an instance record
Counters(r) ==
  <<r.workflows_active, r.workflows_inactive, r.webhooks_active,
    r.webhooks_inactive>>

\* the write of the record of x that stores a failed fetch
FetchFailureWrite(x) ==
  /\ instances'[x] # instances[x]
  /\ instances'[x].availability_note = ErrGetWorkflows

\* C34: when GetWorkflows fails for an instance, the write of its record
\* changes last_check, availability_status and availability_note only; the
\* stored counters stay as they are.
C34_FetchFailureFrame ==
  [][ \A x \in DOMAIN instances :
        FetchFailureWrite(x) =>
          /\ Counters(instances'[x]) = Counters(instances[x])
          /\ instances'[x].check_interval_mins = instances[x].check_interval_mins
    ]_vars

\* the records of one (instance, workflow id) in a collection, in store order
PairRecords(coll, p) ==
  SelectSeq(coll, LAMBDA r : r.instance = p[1] /\ r.workflow_id = p[2])

\* the workflow ids of a listing
IdsOf(ws) == {ws[k].WorkflowID : k \in DOMAIN ws}

\* the counters a pass derives from the list it fetched
FetchedCounters ==
  LET st == GetInstanceStats(fetched)
  IN <<st.ActiveWorkflows, st.InactiveWorkflows, st.ActiveWebhooks,
       st.InactiveWebhooks>>

\* C35: a pass creates or deletes snapshot and webhook records only for the
\* workflow of the fetched list it is at; the stored snapshots and webhooks
\* of a workflow that is no longer in the remote listing are left unchanged
\* by every step; and the counters a pass stores are those of the list it
\* fetched.
C35_NoCleanUp ==
  [][ /\ \A p \in Pairs :
          ( \/ PairRecords(workflows', p) # PairRecords(workflows, p)
            \/ PairRecords(webhooks', p) # PairRecords(webhooks, p) ) =>
            /\ pc \in {"save", "del", "ins"}
            /\ wfIdx \in DOMAIN fetched
            /\ p = pair
            /\ p[2] \in IdsOf(fetched)
      /\ \A p \in Pairs :
          (p[1] \in DOMAIN remote /\ p[2] \notin IdsOf(remote[p[1]])) =>
            /\ PairRecords(workflows', p) = PairRecords(workflows, p)
            /\ PairRecords(webhooks', p) = PairRecords(webhooks, p)
      /\ \A x \in DOMAIN instances :
          Counters(instances'[x]) # Counters(instances[x]) =>
            x = cur /\ Counters(instances'[x]) = FetchedCounters
    ]_vars

\* a workflow is gone from the remote listing, its snapshots and webhooks are
\* still stored, and the counters stored by a later pass count one workflow
C35_Witness ==
  /\ pc = "idle"
  /\ \E w \in WorkflowIds :
       /\ w \notin IdsOf(remote["i1"])
       /\ PairRecords(workflows, <<"i1", w>>) # <<>>
       /\ PairRecords(webhooks, <<"i1", w>>) # <<>>
  /\ instances["i1"].availability_status
  /\ instances["i1"].workflows_active + instances["i1"].workflows_inactive = 1

\* the snapshot and webhook records of one instance, in store order
Belonging(wfs, whs, y) ==
  <<SelectSeq(wfs, LAMBDA r : r.instance = y),
    SelectSeq(whs, LAMBDA r : r.instance = y)>>

\* C36: a step that creates, modifies or deletes a snapshot or webhook record
\* of instance y is a step of a pass for y, also when the other instance
\* reports the same workflow id and the same node id.
C36_CrossInstanceFrame ==
  [][ \A y \in InstanceIds :
        Belonging(workflows', webhooks', y) # Belonging(workflows, webhooks, y)
          => InPass /\ cur = y
    ]_vars

\* a pass for i2 is about to insert a webhook whose workflow id and node id
\* are those of a stored webhook of i1
C36_Witness ==
  /\ pc = "ins" /\ cur = "i2"
  /\ insIdx \in DOMAIN toInsert
  /\ \E k \in DOMAIN webhooks :
       /\ webhooks[k].instance = "i1"
       /\ webhooks[k].workflow_id = workflow.WorkflowID
       /\ webhooks[k].node_id = toInsert[insIdx].NodeID
  /\ \E k \in DOMAIN workflows :
       /\ workflows[k].instance = "i1"
       /\ workflows[k].workflow_id = workflow.WorkflowID

\* the listing of the instances fails at the start of a tick
ListingFails == pc = "idle" /\ tick' = tick + 1 /\ faults' = faults + 1

\* the last tick ended at its listing: no instance was passed or skipped
AfterFailedListing ==
  /\ pc = "idle" /\ tick > 0
  /\ \A i \in InstanceIds : outcome[i].kind = "none"

\* C37: a tick whose listing fails ends at once, with no remote call and no
\* write to any Instance, WorkflowSnapshot or Webhook record; the tick after
\* it lists every instance and starts its loop.
C37_ListingFailure ==
  [][ /\ ListingFails =>
            /\ pc' = "idle"
            /\ reads' = 0
            /\ UNCHANGED <<store, remote, hist, replace>>
      /\ (AfterFailedListing /\ tick' = tick + 1 /\ faults' = faults) =>
            /\ pc' = "loop"
            /\ idx' = 1
            /\ list' = SelectSeq(InstanceOrder, LAMBDA i : i \in DOMAIN instances)
            /\ store' = store
    ]_vars

\* every tick that reaches its loop leaves an outcome for every instance
TickLeavesOutcomes ==
  [][ (pc # "idle" /\ pc' = "idle") =>
        \A i \in DOMAIN instances : outcome'[i].kind # "none" ]_vars

\* the listing of the first tick failed and the second tick has passed and
\* saved i2, which was due at both
C37_Witness ==
  /\ pc = "idle" /\ tick = 2 /\ faults = 1
  /\ Len(hist["i2"]) = 1
  /\ outcome["i2"] = [kind |-> "ok", saved |-> TRUE]
  /\ instances["i2"].availability_status

\* the positions of the webhook-trigger nodes in a node list
TriggerPositions(nodes) == {j \in DOMAIN nodes : nodes[j].Type = WebhookType}

\* hooks holds one Webhook per webhook-trigger node of nodes, in node order,
\* and nothing else
OnePerTrigger(hooks, nodes) ==
  LET T == TriggerPositions(nodes)
  IN /\ Len(hooks) = Cardinality(T)
     /\ \A j \in T :
          LET a == Cardinality({x \in T : x <= j})
          IN hooks[a].NodeID = nodes[j].ID /\ hooks[a].Path = nodes[j].Path

\* C38: on every workflow list, TotalWebhooks of GetInstanceStats equals the
\* number of Webhook values extractWebhooksFromWorkflow returns over the same
\* workflows, and the extractor returns one Webhook per webhook-trigger node,
\* in node order, and none for a node of another type.
C38_AggregatorExtractorAgree ==
  res # NoCall =>
    LET hooks == res[1].hooks
        ws == remote["i1"]
    IN /\ res[1].stats.TotalWebhooks =
            Cardinality(UNION { {<<k, a>> : a \in DOMAIN hooks[k]} :
                                 k \in DOMAIN hooks })
       /\ \A k \in DOMAIN ws : OnePerTrigger(hooks[k], ws[k].Nodes)

\* both were called on two workflows, the second holding two webhook-trigger
\* nodes between nodes of other types
C38_Witness ==
  /\ res # NoCall
  /\ Len(remote["i1"]) = 2
  /\ remote["i1"][2].Nodes = <<NodeO, NodeA2, NodeS, NodeB1, NodeO>>
  /\ remote["i1"][1].Nodes = <<NodeA1>>
  /\ res[1].stats.TotalWebhooks = 3
  /\ Len(res[1].hooks[2]) = 2

\* C39: DownloadWorkflows asks for the detail of every listed workflow by the
\* id the listing reports for it, and when a detail request fails it returns
\* an error and no map.
C39_FetchByRemoteId ==
  (res # NoCall /\ ~arg.listingFails) =>
    LET out == res[1]
    IN /\ \A k \in DOMAIN out.requests : out.requests[k] = arg.data[k].id
       /\ out.err = "" => Len(out.requests) = Len(arg.data)
       /\ out.err # "" => DOMAIN out.files = {}

\* a failed request ends the download with an error and no map, and a
\* download without an error has made one request per listed workflow
DownloadAllOrNothing ==
  res # NoCall =>
    /\ res[1].err # "" => DOMAIN res[1].files = {}
    /\ (res[1].err = "" /\ ~arg.listingFails) =>
          Len(res[1].requests) = Len(arg.data)
    /\ (arg.failAt \in DOMAIN arg.data /\ ~arg.listingFails) => res[1].err # ""

\* C40: when every fetch succeeds the returned map has one entry per listed
\* workflow.
C40_OneEntryPerWorkflow ==
  (res # NoCall /\ res[1].err = "") =>
    Cardinality(DOMAIN res[1].files) = Len(arg.data)
====
